---- MODULE Spec2Model ----
(***************************************************************************)
(* Joshua 7 content validation engine (src/joshua7).                       *)
(*                                                                         *)
(* A text is a sequence of one-character strings (code points that have no *)
(* ASCII spelling carry a symbolic name such as "ZWSP").  Regular          *)
(* expressions are records interpreted by a backtracking matcher with the  *)
(* alternative order of Python's re module; numbers with one decimal are   *)
(* integers in tenths.                                                     *)
(***************************************************************************)
EXTENDS Integers, Sequences, FiniteSets, TLC

\* -------------------------------------------------------------------------
\* Characters
\* -------------------------------------------------------------------------
LowerSeq == <<"a","b","c","d","e","f","g","h","i","j","k","l","m",
              "n","o","p","q","r","s","t","u","v","w","x","y","z">>
UpperSeq == <<"A","B","C","D","E","F","G","H","I","J","K","L","M",
              "N","O","P","Q","R","S","T","U","V","W","X","Y","Z">>
DigitSeq == <<"0","1","2","3","4","5","6","7","8","9">>

\* U+0060, which the lexer of TLA+ does not accept inside a string
Backtick == "GRAVE"

Range(s) == {s[k] : k \in DOMAIN s}

\* The sequence f with its elements evaluated once
Tuple(f) == f \o <<>>

LowerCh == Range(LowerSeq)
UpperCh == Range(UpperSeq)
DigitCh == Range(DigitSeq)
AlphaCh == LowerCh \cup UpperCh
AlnumCh == AlphaCh \cup DigitCh
\* \w of the re module, restricted to the code points of the model
WordCh == AlnumCh \cup {"_"}
\* \s of the re module, restricted to the code points of the model
SpaceCh == {" ", "\t", "\n", "\r"}

\* str.lower() / re.IGNORECASE folding of one code point
ToLower(c) ==
    IF c \in UpperCh
    THEN LowerSeq[CHOOSE k \in DOMAIN UpperSeq : UpperSeq[k] = c]
    ELSE c

\* str.upper() of one code point
ToUpper(c) ==
    IF c \in LowerCh
    THEN UpperSeq[CHOOSE k \in DOMAIN LowerSeq : LowerSeq[k] = c]
    ELSE c

LowerStr(s) == Tuple([k \in DOMAIN s |-> ToLower(s[k])])
UpperStr(s) == Tuple([k \in DOMAIN s |-> ToUpper(s[k])])

\* Python's  needle in hay  for strings
IsSubstring(needle, hay) ==
    \E i \in 0..(Len(hay) - Len(needle)) :
        \A k \in 1..Len(needle) : hay[i + k] = needle[k]

RECURSIVE Concat(_)
\* "".join(parts)
Concat(parts) ==
    IF parts = <<>> THEN <<>> ELSE Head(parts) \o Concat(Tail(parts))

\* -------------------------------------------------------------------------
\* Regular expressions (the subset of Python's re the validators use)
\* -------------------------------------------------------------------------
Lit(c)        == [t |-> "lit", c |-> c]
Cls(S)        == [t |-> "cls", S |-> S]
AnyCh         == [t |-> "any"]
Cat(items)    == [t |-> "cat", items |-> items]
Alt(items)    == [t |-> "alt", items |-> items]
\* max = -1 stands for "no upper limit"
Rep(r, min, max)     == [t |-> "rep", r |-> r, min |-> min, max |-> max, greedy |-> TRUE]
LazyRep(r, min, max) == [t |-> "rep", r |-> r, min |-> min, max |-> max, greedy |-> FALSE]
Opt(r)        == Rep(r, 0, 1)
Star(r)       == Rep(r, 0, -1)
Plus(r)       == Rep(r, 1, -1)
NotBehind(S)  == [t |-> "nbehind", S |-> S]
NotAhead(r)   == [t |-> "nahead", r |-> r]
WordB         == [t |-> "wordb"]
LineStart     == [t |-> "bol"]
Word(s)       == [t |-> "str", s |-> s]
Digit         == Cls(DigitCh)
Ws            == Cls(SpaceCh)

\* A compiled pattern: the expression and the re.IGNORECASE flag
Pattern(r, ic) == [re |-> r, ic |-> ic]

ChEq(ic, a, b) == IF ic THEN ToLower(a) = ToLower(b) ELSE a = b
ChIn(ic, a, S) == a \in S \/ (ic /\ (ToLower(a) \in S \/ ToUpper(a) \in S))

IsWordAt(s, k) == k >= 1 /\ k <= Len(s) /\ s[k] \in WordCh

\* Does the one-character expression n accept the character c
Accepts(n, c, ic) ==
    CASE n.t = "lit" -> ChEq(ic, c, n.c)
      [] n.t = "cls" -> ChIn(ic, c, n.S)
      [] n.t = "any" -> c # "\n"

OneChar(n) == n.t \in {"lit", "cls", "any"}

\* The longest run of characters from offset i that n accepts, at most max
\* characters (max = -1: no limit)
RunLen(n, s, i, ic, max) ==
    LET lim == IF max = -1 \/ max > Len(s) - i THEN Len(s) - i ELSE max
    IN CHOOSE k \in 0..lim :
          /\ \A j \in 1..k : Accepts(n, s[i + j], ic)
          /\ (k = lim \/ ~Accepts(n, s[i + k + 1], ic))

SetMax(S) == CHOOSE x \in S : \A y \in S : y <= x
SetMin(S) == CHOOSE x \in S : \A y \in S : x <= y

RECURSIVE Match(_, _, _, _)
\* The backtracking matcher: cont is the list of expressions still to be
\* matched at offset i of s; the result is the end offset of the first match
\* in backtracking order, or -1.  A repetition of a one-character expression
\* tries its run lengths from the longest down (greedy) or from the shortest
\* up (lazy), which is the order in which backtracking visits them.
Match(cont, s, i, ic) ==
    IF cont = <<>> THEN i
    ELSE
      LET n    == Head(cont)
          rest == Tail(cont)
      IN
      CASE OneChar(n) ->
             IF i < Len(s) /\ Accepts(n, s[i + 1], ic)
             THEN Match(rest, s, i + 1, ic) ELSE -1
        [] n.t = "str" ->
             IF /\ i + Len(n.s) <= Len(s)
                /\ \A k \in 1..Len(n.s) : ChEq(ic, s[i + k], n.s[k])
             THEN Match(rest, s, i + Len(n.s), ic) ELSE -1
        [] n.t = "cat" -> Match(n.items \o rest, s, i, ic)
        [] n.t = "alt" ->
             IF n.items = <<>> THEN -1
             ELSE LET first == Match(<<Head(n.items)>> \o rest, s, i, ic)
                  IN IF first # -1 THEN first
                     ELSE Match(<<Alt(Tail(n.items))>> \o rest, s, i, ic)
        [] n.t = "rep" /\ OneChar(n.r) ->
             LET run  == RunLen(n.r, s, i, ic, n.max)
                 good == {k \in n.min..run : Match(rest, s, i + k, ic) # -1}
             IN IF good = {} THEN -1
                ELSE Match(rest, s,
                           i + (IF n.greedy THEN SetMax(good) ELSE SetMin(good)),
                           ic)
        [] n.t = "rep" /\ ~OneChar(n.r) ->
             LET less == [n EXCEPT !.min = IF n.min > 0 THEN n.min - 1 ELSE 0,
                                   !.max = IF n.max > 0 THEN n.max - 1 ELSE n.max]
                 more == Match(<<n.r, less>> \o rest, s, i, ic)
             IN IF n.min > 0 THEN more
                ELSE IF n.max = 0 THEN Match(rest, s, i, ic)
                ELSE IF n.greedy
                     THEN IF more # -1 THEN more ELSE Match(rest, s, i, ic)
                     ELSE LET stop == Match(rest, s, i, ic)
                          IN IF stop # -1 THEN stop ELSE more
        [] n.t = "nbehind" ->
             IF i >= 1 /\ s[i] \in n.S THEN -1 ELSE Match(rest, s, i, ic)
        [] n.t = "nahead" ->
             IF Match(<<n.r>>, s, i, ic) # -1 THEN -1 ELSE Match(rest, s, i, ic)
        [] n.t = "wordb" ->
             IF IsWordAt(s, i) # IsWordAt(s, i + 1)
             THEN Match(rest, s, i, ic) ELSE -1
        [] n.t = "bol" ->
             IF i = 0 \/ s[i] = "\n" THEN Match(rest, s, i, ic) ELSE -1

RECURSIVE FindIterFrom(_, _, _)
\* The matches from offset pos on; ends[q + 1] is the end of the match that
\* starts at offset q, or -1
FindIterFrom(ends, n, pos) ==
    LET starts == {q \in pos..n : ends[q + 1] # -1}
    IN IF starts = {} THEN <<>>
       ELSE LET q == SetMin(starts)
                e == ends[q + 1]
            IN <<<<q, e>>>> \o FindIterFrom(ends, n, IF e > q THEN e ELSE q + 1)

\* pattern.finditer(text) if it reported a match at every offset where one
\* starts, overlapping ones included
finditer_overlapping(p, s) ==
    LET ends   == Tuple([q \in 1..(Len(s) + 1) |-> Match(<<p.re>>, s, q - 1, p.ic)])
        starts == {q \in 0..Len(s) : ends[q + 1] # -1}
    IN Tuple([k \in 1..Cardinality(starts) |->
                LET q == CHOOSE q \in starts :
                             Cardinality({r \in starts : r < q}) = k - 1
                IN <<q, ends[q + 1]>>])

\* pattern.finditer(text): the non-overlapping matches, left to right, as
\* <<start, end>> offsets
finditer(p, s) ==
    FindIterFrom(Tuple([q \in 1..(Len(s) + 1) |-> Match(<<p.re>>, s, q - 1, p.ic)]),
                 Len(s), 0)

\* safe_finditer(pattern, text): the matches, or no match when the alarm
\* fired before the matches were collected (the TimeoutError branch).  The
\* alarm is set in the main thread only; every other thread makes the plain
\* call.
safe_finditer(p, s, fired) == IF fired THEN <<>> ELSE finditer(p, s)

\* match.group()
Group(s, m) == SubSeq(s, m[1] + 1, m[2])

\* -------------------------------------------------------------------------
\* Input normalisation (src/joshua7/engine.py)
\* -------------------------------------------------------------------------
\* Code points outside ASCII are written "U+XXXX"
_ZERO_WIDTH_RE ==
    {"U+200B", "U+200C", "U+200D", "U+200E", "U+200F", "U+2060", "U+2061",
     "U+2062", "U+2063", "U+2064", "U+FEFF"}

\* The keys of _HOMOGLYPH_MAP, in insertion order
HomoglyphKeys ==
    <<"U+0410", "U+0412", "U+0421", "U+0415", "U+041D", "U+041A", "U+041C",
      "U+041E", "U+0420", "U+0422", "U+0425", "U+0430", "U+0435", "U+043E",
      "U+0440", "U+0441", "U+0443", "U+0445", "U+FF21", "U+FF22", "U+FF23",
      "U+FF24", "U+FF25", "U+FF26", "U+FF27", "U+FF28", "U+FF29", "U+FF2A",
      "U+FF2B", "U+FF2C", "U+FF2D", "U+FF2E", "U+FF2F", "U+FF30", "U+FF31",
      "U+FF32", "U+FF33", "U+FF34", "U+FF35", "U+FF36", "U+FF37", "U+FF38",
      "U+FF39", "U+FF3A", "U+FF41", "U+FF42", "U+FF43", "U+FF44", "U+FF45",
      "U+FF46", "U+FF47", "U+FF48", "U+FF49", "U+FF4A", "U+FF4B", "U+FF4C",
      "U+FF4D", "U+FF4E", "U+FF4F", "U+FF50", "U+FF51", "U+FF52", "U+FF53",
      "U+FF54", "U+FF55", "U+FF56", "U+FF57", "U+FF58", "U+FF59", "U+FF5A">>

\* The values of _HOMOGLYPH_MAP, parallel to HomoglyphKeys
HomoglyphVals ==
    <<"A", "B", "C", "E", "H", "K", "M", "O", "P", "T", "X", "a", "e", "o",
      "p", "c", "y", "x", "A", "B", "C", "D", "E", "F", "G", "H", "I", "J",
      "K", "L", "M", "N", "O", "P", "Q", "R", "S", "T", "U", "V", "W", "X",
      "Y", "Z", "a", "b", "c", "d", "e", "f", "g", "h", "i", "j", "k", "l",
      "m", "n", "o", "p", "q", "r", "s", "t", "u", "v", "w", "x", "y", "z">>

IsHomoglyph(c) == \E k \in DOMAIN HomoglyphKeys : HomoglyphKeys[k] = c

\* _HOMOGLYPH_MAP[c]
_HOMOGLYPH_MAP(c) ==
    HomoglyphVals[CHOOSE k \in DOMAIN HomoglyphKeys : HomoglyphKeys[k] = c]

\* Canonical compositions of unicodedata.normalize for the combining marks
\* of the model: <<base, mark, precomposed>>
ComposeTable ==
    {<<"e", "U+0301", "U+00E9">>, <<"a", "U+0301", "U+00E1">>,
     <<"o", "U+0301", "U+00F3">>, <<"U+0443", "U+0306", "U+045E">>,
     <<"U+0438", "U+0306", "U+0439">>}

\* The fullwidth Latin letters U+FF21..U+FF3A and U+FF41..U+FF5A, parallel to
\* UpperSeq and LowerSeq
FullwidthUpper ==
    <<"U+FF21", "U+FF22", "U+FF23", "U+FF24", "U+FF25", "U+FF26", "U+FF27",
      "U+FF28", "U+FF29", "U+FF2A", "U+FF2B", "U+FF2C", "U+FF2D", "U+FF2E",
      "U+FF2F", "U+FF30", "U+FF31", "U+FF32", "U+FF33", "U+FF34", "U+FF35",
      "U+FF36", "U+FF37", "U+FF38", "U+FF39", "U+FF3A">>

FullwidthLower ==
    <<"U+FF41", "U+FF42", "U+FF43", "U+FF44", "U+FF45", "U+FF46", "U+FF47",
      "U+FF48", "U+FF49", "U+FF4A", "U+FF4B", "U+FF4C", "U+FF4D", "U+FF4E",
      "U+FF4F", "U+FF50", "U+FF51", "U+FF52", "U+FF53", "U+FF54", "U+FF55",
      "U+FF56", "U+FF57", "U+FF58", "U+FF59", "U+FF5A">>

\* The compatibility decomposition of one code point: a fullwidth Latin
\* letter maps to its ASCII letter; every other code point of the model is
\* its own decomposition
CompatChar(c) ==
    IF \E k \in DOMAIN FullwidthUpper : FullwidthUpper[k] = c
    THEN UpperSeq[CHOOSE k \in DOMAIN FullwidthUpper : FullwidthUpper[k] = c]
    ELSE IF \E k \in DOMAIN FullwidthLower : FullwidthLower[k] = c
    THEN LowerSeq[CHOOSE k \in DOMAIN FullwidthLower : FullwidthLower[k] = c]
    ELSE c

RECURSIVE ComposeFrom(_, _)
\* Canonical composition, left to right, from position k
ComposeFrom(s, k) ==
    IF k > Len(s) THEN <<>>
    ELSE IF k < Len(s) /\ \E t \in ComposeTable : t[1] = s[k] /\ t[2] = s[k + 1]
         THEN <<(CHOOSE t \in ComposeTable : t[1] = s[k] /\ t[2] = s[k + 1])[3]>>
              \o ComposeFrom(s, k + 2)
         ELSE <<s[k]>> \o ComposeFrom(s, k + 1)

\* unicodedata.normalize("NFKC", text)
NFKC(s) == ComposeFrom(Tuple([k \in DOMAIN s |-> CompatChar(s[k])]), 1)

\* normalize_text(text)
normalize_text(text) ==
    LET composed == NFKC(text)
        stripped == SelectSeq(composed, LAMBDA c : c \notin _ZERO_WIDTH_RE)
    IN Tuple([k \in DOMAIN stripped |->
                IF IsHomoglyph(stripped[k]) THEN _HOMOGLYPH_MAP(stripped[k])
                ELSE stripped[k]])

\* -------------------------------------------------------------------------
\* Data model (src/joshua7/models.py)
\* -------------------------------------------------------------------------
INFO     == "info"
WARNING  == "warning"
ERROR    == "error"
CRITICAL == "critical"

\* An optional span or score is a sequence: None is the empty sequence, a
\* span is <<start, end>>, a score is <<value>>
None == <<>>
Some(v) == <<v>>

\* What a constructor or validate yields instead of a value when it raises
Raise == [exc |-> "TypeError"]

\* One metadata item: key and value as text, str says whether the value is a
\* Python string (quoted by str(dict)) or a number/list rendered by repr
MetaItem(key, val, str) == [key |-> key, val |-> val, str |-> str]

ValidationFinding(name, severity, message, span, metadata) ==
    [validator_name |-> name, severity |-> severity, message |-> message,
     span |-> span, metadata |-> metadata]

ValidationResult(name, passed, score, findings) ==
    [validator_name |-> name, passed |-> passed, score |-> score,
     findings |-> findings]

RECURSIVE SerializeItems(_)
SerializeItems(md) ==
    IF md = <<>> THEN <<>>
    ELSE LET it == Head(md)
             qv == IF it.str THEN <<"'">> \o it.val \o <<"'">> ELSE it.val
         IN <<"'">> \o it.key \o <<"'", ":", " ">> \o qv
            \o (IF Tail(md) = <<>> THEN <<>> ELSE <<",", " ">>)
            \o SerializeItems(Tail(md))

\* str(finding.metadata)
serialize(md) == <<"{">> \o SerializeItems(md) \o <<"}">>

\* -------------------------------------------------------------------------
\* Configuration values.  A value of a settings field or of a per-request
\* override is tagged with its Python type, so that a value of the wrong type
\* can be told from a well-typed one.
\* -------------------------------------------------------------------------
VNum(t)      == [ty |-> "num", num |-> t]          \* a float, in tenths
VInt(n)      == [ty |-> "int", int |-> n]
VBool(b)     == [ty |-> "bool", bool |-> b]
VDict(items) == [ty |-> "dict", items |-> items]   \* a dict with string keys
VStr(s)      == [ty |-> "str", chars |-> s]
VList(items) == [ty |-> "list", items |-> items]   \* a list of strings
VFill(n)     == [ty |-> "fill", n |-> n]           \* the string "x" * n
VNone        == [ty |-> "none"]

\* config.get(key, default)
Get(config, key, default) ==
    IF key \in DOMAIN config THEN config[key] ELSE default

\* {**base, **over}
Merge(base, over) ==
    [k \in (DOMAIN base) \cup (DOMAIN over) |->
        IF k \in DOMAIN over THEN over[k] ELSE base[k]]

\* The text of a string-typed value
StrChars(v) == IF v.ty = "fill" THEN Tuple([k \in 1..v.n |-> "x"]) ELSE v.chars

IsStrV(v) == v.ty \in {"str", "fill"}

\* -------------------------------------------------------------------------
\* PII validator (src/joshua7/validators/pii.py)
\* -------------------------------------------------------------------------
PhoneSep == Cls(SpaceCh \cup {"-", "."})
DashSep  == Cls(SpaceCh \cup {"-"})
D(n)     == Rep(Digit, n, n)

EmailRe ==
    Cat(<<Plus(Cls(AlnumCh \cup {".", "_", "%", "+", "-"})), Lit("@"),
          Plus(Cls(AlnumCh \cup {".", "-"})), Lit("."),
          Rep(Cls(AlphaCh), 2, -1)>>)

PhoneRe ==
    Cat(<<NotBehind(DigitCh),
          Opt(Cat(<<Opt(Lit("+")), Lit("1"), Opt(PhoneSep)>>)),
          Alt(<<Cat(<<Lit("("), D(3), Lit(")"), Opt(PhoneSep)>>),
                Cat(<<D(3), PhoneSep>>)>>),
          D(3), Opt(PhoneSep), D(4),
          NotAhead(Digit)>>)

SsnRe ==
    Cat(<<NotBehind(DigitCh),
          NotAhead(Alt(<<Word(<<"0","0","0">>), Word(<<"6","6","6">>),
                         Cat(<<Lit("9"), Digit, Digit>>)>>)),
          D(3), DashSep,
          NotAhead(Word(<<"0","0">>)), D(2), DashSep,
          NotAhead(Word(<<"0","0","0","0">>)), D(4),
          NotAhead(Digit)>>)

CreditCardRe ==
    Cat(<<NotBehind(DigitCh),
          Alt(<<Cat(<<Lit("4"), D(3), Opt(DashSep), D(4), Opt(DashSep), D(4),
                      Opt(DashSep), D(4)>>),
                Cat(<<Lit("5"), Cls({"1","2","3","4","5"}), D(2), Opt(DashSep),
                      D(4), Opt(DashSep), D(4), Opt(DashSep), D(4)>>),
                Cat(<<Lit("3"), Cls({"4","7"}), D(2), Opt(DashSep), D(6),
                      Opt(DashSep), D(5)>>),
                Cat(<<Lit("6"),
                      Alt(<<Word(<<"0","1","1">>), Cat(<<Lit("5"), D(2)>>)>>),
                      Opt(DashSep), D(4), Opt(DashSep), D(4), Opt(DashSep),
                      D(4)>>)>>),
          NotAhead(Digit)>>)

\* The dict _PII_PATTERNS in insertion order; chars is the key as text
_PII_PATTERNS ==
    <<[name |-> "email", pattern |-> Pattern(EmailRe, FALSE),
       chars |-> <<"e","m","a","i","l">>],
      [name |-> "phone", pattern |-> Pattern(PhoneRe, FALSE),
       chars |-> <<"p","h","o","n","e">>],
      [name |-> "ssn", pattern |-> Pattern(SsnRe, FALSE),
       chars |-> <<"s","s","n">>],
      [name |-> "credit_card", pattern |-> Pattern(CreditCardRe, FALSE),
       chars |-> <<"c","r","e","d","i","t","_","c","a","r","d">>]>>

PiiTypeNames == {_PII_PATTERNS[k].name : k \in DOMAIN _PII_PATTERNS}

_REDACT_MAP ==
    [email       |-> <<"*","*","*","@","*","*","*",".","*","*","*">>,
     phone       |-> <<"*","*","*","-","*","*","*","-","*","*","*","*">>,
     ssn         |-> <<"*","*","*","-","*","*","-","*","*","*","*">>,
     credit_card |-> <<"*","*","*","*","-","*","*","*","*","-","*","*","*","*",
                       "-","*","*","*","*">>]

\* _redact(pii_type): a fixed placeholder
_redact(pii_type) ==
    IF pii_type \in DOMAIN _REDACT_MAP
    THEN _REDACT_MAP[pii_type]
    ELSE <<"*","*","*","R","E","D","A","C","T","E","D","*","*","*">>

\* A finding that shows the matched text where the placeholder belongs
PiiFinding_echo(entry, text, m) ==
    LET shown == Group(text, m)
    IN ValidationFinding("pii", CRITICAL,
         <<"P","o","t","e","n","t","i","a","l"," ">> \o UpperStr(entry.chars)
           \o <<" ","d","e","t","e","c","t","e","d"," ","(","r","e","d","a",
                "c","t","e","d",":"," ">> \o shown \o <<")">>,
         m,
         <<MetaItem(<<"p","i","i","_","t","y","p","e">>, entry.chars, TRUE),
           MetaItem(<<"r","e","d","a","c","t","e","d">>, shown, TRUE)>>)
\* The finding PIIValidator.validate appends for one match of one pattern
PiiFinding(entry, text, m) ==
    LET redacted == _redact(entry.name)
    IN ValidationFinding("pii", CRITICAL,
         <<"P","o","t","e","n","t","i","a","l"," ">> \o UpperStr(entry.chars)
           \o <<" ","d","e","t","e","c","t","e","d"," ","(","r","e","d","a",
                "c","t","e","d",":"," ">> \o redacted \o <<")">>,
         m,
         <<MetaItem(<<"p","i","i","_","t","y","p","e">>, entry.chars, TRUE),
           MetaItem(<<"r","e","d","a","c","t","e","d">>, redacted, TRUE)>>)

\* Does PIIValidator.__init__ raise: k in enabled is a TypeError for a value
\* that is no container
PiiInitRaises(config) ==
    "pii_patterns_enabled" \in DOMAIN config
    /\ config["pii_patterns_enabled"].ty \notin {"list", "str", "fill"}

\* PIIValidator.__init__: the patterns whose key is in pii_patterns_enabled
\* (an element of a list, a substring of a string)
PiiActive(config) ==
    LET enabled == Get(config, "pii_patterns_enabled",
                       VList([k \in DOMAIN _PII_PATTERNS |-> _PII_PATTERNS[k].chars]))
    IN SelectSeq(_PII_PATTERNS,
                 LAMBDA entry :
                    IF enabled.ty = "list" THEN entry.chars \in Range(enabled.items)
                    ELSE IsSubstring(entry.chars, StrChars(enabled)))

\* PIIValidator.validate, late being the pattern names whose guarded call
\* timed out
PiiScan(config, text, late) ==
    LET active   == PiiActive(config)
        perType  == [k \in DOMAIN active |->
                       LET ms == safe_finditer(active[k].pattern, text,
                                               active[k].name \in late)
                       IN [j \in DOMAIN ms |-> PiiFinding(active[k], text, ms[j])]]
        findings == Concat(perType)
    IN ValidationResult("pii", Len(findings) = 0, None, findings)

\* PIIValidator.validate with every guarded call completing in time
PiiValidate(config, text) == PiiScan(config, text, {})

\* -------------------------------------------------------------------------
\* Numbers: a value with one decimal is an integer number of tenths
\* -------------------------------------------------------------------------
\* round(num / den, 0) for den > 0, ties to even as Python's round
RoundHalfEven(num, den) ==
    LET q == num \div den
        r == num - q * den
    IN IF 2 * r < den THEN q
       ELSE IF 2 * r > den THEN q + 1
       ELSE IF q % 2 = 0 THEN q ELSE q + 1

Min2(a, b) == IF a <= b THEN a ELSE b
Max2(a, b) == IF a >= b THEN a ELSE b

RECURSIVE NatChars(_)
\* str(n) for a natural number n
NatChars(n) ==
    IF n < 10 THEN <<DigitSeq[n + 1]>>
    ELSE NatChars(n \div 10) \o <<DigitSeq[(n % 10) + 1]>>

\* f"{x:.1f}" for a value x held in tenths
TenthsChars(t) ==
    LET a == IF t < 0 THEN -t ELSE t
    IN (IF t < 0 THEN <<"-">> ELSE <<>>)
       \o NatChars(a \div 10) \o <<".">> \o NatChars(a % 10)

\* -------------------------------------------------------------------------
\* Prompt-injection detector (src/joshua7/validators/prompt_injection.py)
\* -------------------------------------------------------------------------
Re_ignore_instructions ==
    Pattern(Cat(<<Word(<<"i","g","n","o","r","e">>), Plus(Ws),
    Opt(Cat(<<Word(<<"a","l","l">>), Plus(Ws)>>)),
    Alt(<<Word(<<"p","r","e","v","i","o","u","s">>),
    Word(<<"p","r","i","o","r">>), Word(<<"a","b","o","v","e">>)>>),
    Plus(Ws),
    Alt(<<Cat(<<Word(<<"i","n","s","t","r","u","c","t","i","o","n">>),
    Opt(Lit("s"))>>), Cat(<<Word(<<"p","r","o","m","p","t">>),
    Opt(Lit("s"))>>), Cat(<<Word(<<"r","u","l","e">>),
    Opt(Lit("s"))>>)>>)>>), TRUE)

Re_system_prompt_leak ==
    Pattern(Cat(<<Alt(<<Word(<<"s","h","o","w">>),
    Word(<<"r","e","v","e","a","l">>), Word(<<"p","r","i","n","t">>),
    Word(<<"o","u","t","p","u","t">>), Word(<<"r","e","p","e","a","t">>)>>),
    Plus(Ws), Opt(Cat(<<Word(<<"y","o","u","r">>), Plus(Ws)>>)),
    Alt(<<Cat(<<Word(<<"s","y","s","t","e","m">>), Plus(Ws),
    Word(<<"p","r","o","m","p","t">>)>>),
    Word(<<"i","n","s","t","r","u","c","t","i","o","n","s">>),
    Word(<<"r","u","l","e","s">>)>>)>>), TRUE)

Re_role_override ==
    Pattern(Cat(<<Word(<<"y","o","u">>), Plus(Ws), Word(<<"a","r","e">>),
    Plus(Ws), Word(<<"n","o","w">>), Plus(Ws), Opt(Cat(<<Lit("a"),
    Plus(Ws)>>)), Alt(<<Word(<<"D","A","N">>),
    Word(<<"u","n","r","e","s","t","r","i","c","t","e","d">>),
    Word(<<"j","a","i","l","b","r","o","k","e","n">>),
    Word(<<"e","v","i","l">>)>>)>>), TRUE)

Re_delimiter_injection ==
    Pattern(Cat(<<Word(<<Backtick,Backtick,Backtick>>), Star(Ws),
    Alt(<<Word(<<"s","y","s","t","e","m">>),
    Word(<<"a","s","s","i","s","t","a","n","t">>),
    Word(<<"u","s","e","r">>)>>), Star(Ws), Lit("\n")>>), TRUE)

Re_encoded_injection ==
    Pattern(Cat(<<Alt(<<Word(<<"b","a","s","e","6","4">>),
    Word(<<"r","o","t","1","3">>), Word(<<"h","e","x">>)>>), Star(Ws),
    Alt(<<Word(<<"d","e","c","o","d","e">>),
    Word(<<"e","n","c","o","d","e">>)>>), Star(Ws), Cls({":", "="})>>),
    TRUE)

Re_do_anything_now ==
    Pattern(Cat(<<Alt(<<Word(<<"D","A","N">>), Cat(<<Word(<<"d","o">>), Plus(Ws),
    Word(<<"a","n","y","t","h","i","n","g">>), Plus(Ws),
    Word(<<"n","o","w">>)>>)>>), Plus(Ws), Word(<<"m","o","d","e">>)>>),
    TRUE)

Re_instruction_override ==
    Pattern(Cat(<<Alt(<<Word(<<"n","e","w">>),
    Cat(<<Word(<<"u","p","d","a","t","e">>), Opt(Lit("d"))>>),
    Word(<<"o","v","e","r","r","i","d","e">>)>>), Plus(Ws),
    Opt(Cat(<<Word(<<"s","y","s","t","e","m">>), Plus(Ws)>>)),
    Alt(<<Cat(<<Word(<<"i","n","s","t","r","u","c","t","i","o","n">>),
    Opt(Lit("s"))>>), Word(<<"p","r","o","m","p","t">>),
    Cat(<<Word(<<"r","u","l","e">>), Opt(Lit("s"))>>)>>), Star(Ws), Cls({":",
    "="})>>), TRUE)

Re_hidden_text ==
    Pattern(Cat(<<Lit("<"), Star(Ws), Alt(<<Word(<<"h","i","d","d","e","n">>),
    Word(<<"i","n","v","i","s","i","b","l","e">>),
    Word(<<"s","e","c","r","e","t">>)>>), Star(Ws), Lit(">")>>), TRUE)

Re_forget_everything ==
    Pattern(Cat(<<Word(<<"f","o","r","g","e","t">>), Plus(Ws),
    Alt(<<Word(<<"e","v","e","r","y","t","h","i","n","g">>),
    Word(<<"a","l","l">>), Word(<<"w","h","a","t">>)>>), Plus(Ws),
    Alt(<<Word(<<"y","o","u">>), Lit("I")>>), Plus(Ws),
    Alt(<<Word(<<"k","n","o","w">>), Word(<<"s","a","i","d">>),
    Word(<<"t","o","l","d">>)>>)>>), TRUE)

Re_act_as ==
    Pattern(Cat(<<Alt(<<Word(<<"a","c","t">>), Word(<<"b","e","h","a","v","e">>),
    Word(<<"r","e","s","p","o","n","d">>)>>), Plus(Ws), Word(<<"a","s">>),
    Plus(Ws), Opt(Cat(<<Word(<<"i","f">>), Plus(Ws)>>)),
    Opt(Cat(<<Word(<<"y","o","u">>), Plus(Ws), Alt(<<Word(<<"a","r","e">>),
    Word(<<"w","e","r","e">>)>>), Plus(Ws)>>)), Opt(Cat(<<Lit("a"),
    Plus(Ws)>>)), Alt(<<Word(<<"d","i","f","f","e","r","e","n","t">>),
    Word(<<"n","e","w">>), Word(<<"a","n","o","t","h","e","r">>)>>)>>),
    TRUE)

Re_template_injection ==
    Pattern(Alt(<<Cat(<<Word(<<"{","{">>), LazyRep(AnyCh, 0, -1),
    Word(<<"}","}">>)>>), Cat(<<Word(<<"$","{">>), LazyRep(AnyCh, 0, -1),
    Lit("}")>>), Cat(<<Word(<<"<","%">>), LazyRep(AnyCh, 0, -1),
    Word(<<"%",">">>)>>)>>), TRUE)

Re_markdown_role_block ==
    Pattern(Cat(<<LineStart, Rep(Lit("#"), 1, 3), Star(Ws),
    Alt(<<Word(<<"s","y","s","t","e","m">>), Word(<<"u","s","e","r">>),
    Word(<<"a","s","s","i","s","t","a","n","t">>)>>), Star(Ws),
    Opt(Alt(<<Word(<<"p","r","o","m","p","t">>),
    Word(<<"m","e","s","s","a","g","e">>), Word(<<"r","o","l","e">>)>>))>>),
    TRUE)

Re_xml_tag_injection ==
    Pattern(Cat(<<Lit("<"), Star(Ws), Opt(Lit("/")),
    Alt(<<Word(<<"s","y","s","t","e","m">>),
    Word(<<"i","n","s","t","r","u","c","t","i","o","n">>),
    Word(<<"p","r","o","m","p","t">>), Cat(<<Word(<<"r","u","l","e">>),
    Opt(Lit("s"))>>), Word(<<"c","o","n","t","e","x","t">>)>>), Star(Ws),
    Lit(">")>>), TRUE)

Re_continuation_attack ==
    Pattern(Cat(<<Alt(<<Word(<<"c","o","n","t","i","n","u","e">>),
    Word(<<"r","e","s","u","m","e">>),
    Word(<<"p","r","o","c","e","e","d">>)>>), Plus(Ws),
    Alt(<<Word(<<"f","r","o","m">>), Word(<<"w","i","t","h">>)>>), Plus(Ws),
    Opt(Cat(<<Word(<<"t","h","e">>), Plus(Ws)>>)),
    Alt(<<Word(<<"r","e","a","l">>), Word(<<"a","c","t","u","a","l">>),
    Word(<<"o","r","i","g","i","n","a","l">>), Word(<<"t","r","u","e">>)>>),
    Plus(Ws),
    Alt(<<Cat(<<Word(<<"i","n","s","t","r","u","c","t","i","o","n">>),
    Opt(Lit("s"))>>), Word(<<"p","r","o","m","p","t">>),
    Word(<<"t","a","s","k">>)>>)>>), TRUE)

Re_payload_separator ==
    Pattern(Alt(<<Rep(Lit("-"), 5, -1), Rep(Lit("="), 5, -1), Rep(Lit("_"), 5,
    -1), Rep(Lit("*"), 5, -1)>>), FALSE)

Re_cognitive_hacking ==
    Pattern(Cat(<<Alt(<<Word(<<"p","r","e","t","e","n","d">>),
    Word(<<"i","m","a","g","i","n","e">>),
    Word(<<"s","u","p","p","o","s","e">>),
    Word(<<"h","y","p","o","t","h","e","t","i","c","a","l","l","y">>)>>),
    Plus(Ws), Opt(Cat(<<Word(<<"t","h","a","t">>), Plus(Ws)>>)),
    Alt(<<Word(<<"y","o","u">>), Word(<<"t","h","e","r","e">>)>>), Plus(Ws),
    Alt(<<Word(<<"a","r","e">>), Word(<<"i","s">>),
    Word(<<"w","e","r","e">>), Word(<<"h","a","v","e">>)>>), Plus(Ws),
    Word(<<"n","o">>), Plus(Ws), Alt(<<Cat(<<Word(<<"r","u","l","e">>),
    Opt(Lit("s"))>>),
    Cat(<<Word(<<"r","e","s","t","r","i","c","t","i","o","n">>),
    Opt(Lit("s"))>>), Cat(<<Word(<<"l","i","m","i","t">>), Opt(Lit("s"))>>),
    Cat(<<Word(<<"g","u","i","d","e","l","i","n","e">>), Opt(Lit("s"))>>),
    Cat(<<Word(<<"f","i","l","t","e","r">>), Opt(Lit("s"))>>)>>)>>), TRUE)

\* The list _INJECTION_PATTERNS in order; chars is the family name as text
_INJECTION_PATTERNS ==
    <<[name |-> "ignore_instructions", pattern |-> Re_ignore_instructions,
       chars |-> <<"i","g","n","o","r","e","_","i","n","s","t","r","u","c","t","i","o","n","s">>],
      [name |-> "system_prompt_leak", pattern |-> Re_system_prompt_leak,
       chars |-> <<"s","y","s","t","e","m","_","p","r","o","m","p","t","_","l","e","a","k">>],
      [name |-> "role_override", pattern |-> Re_role_override,
       chars |-> <<"r","o","l","e","_","o","v","e","r","r","i","d","e">>],
      [name |-> "delimiter_injection", pattern |-> Re_delimiter_injection,
       chars |-> <<"d","e","l","i","m","i","t","e","r","_","i","n","j","e","c","t","i","o","n">>],
      [name |-> "encoded_injection", pattern |-> Re_encoded_injection,
       chars |-> <<"e","n","c","o","d","e","d","_","i","n","j","e","c","t","i","o","n">>],
      [name |-> "do_anything_now", pattern |-> Re_do_anything_now,
       chars |-> <<"d","o","_","a","n","y","t","h","i","n","g","_","n","o","w">>],
      [name |-> "instruction_override", pattern |-> Re_instruction_override,
       chars |-> <<"i","n","s","t","r","u","c","t","i","o","n","_","o","v","e","r","r","i","d","e">>],
      [name |-> "hidden_text", pattern |-> Re_hidden_text,
       chars |-> <<"h","i","d","d","e","n","_","t","e","x","t">>],
      [name |-> "forget_everything", pattern |-> Re_forget_everything,
       chars |-> <<"f","o","r","g","e","t","_","e","v","e","r","y","t","h","i","n","g">>],
      [name |-> "act_as", pattern |-> Re_act_as,
       chars |-> <<"a","c","t","_","a","s">>],
      [name |-> "template_injection", pattern |-> Re_template_injection,
       chars |-> <<"t","e","m","p","l","a","t","e","_","i","n","j","e","c","t","i","o","n">>],
      [name |-> "markdown_role_block", pattern |-> Re_markdown_role_block,
       chars |-> <<"m","a","r","k","d","o","w","n","_","r","o","l","e","_","b","l","o","c","k">>],
      [name |-> "xml_tag_injection", pattern |-> Re_xml_tag_injection,
       chars |-> <<"x","m","l","_","t","a","g","_","i","n","j","e","c","t","i","o","n">>],
      [name |-> "continuation_attack", pattern |-> Re_continuation_attack,
       chars |-> <<"c","o","n","t","i","n","u","a","t","i","o","n","_","a","t","t","a","c","k">>],
      [name |-> "payload_separator", pattern |-> Re_payload_separator,
       chars |-> <<"p","a","y","l","o","a","d","_","s","e","p","a","r","a","t","o","r">>],
      [name |-> "cognitive_hacking", pattern |-> Re_cognitive_hacking,
       chars |-> <<"c","o","g","n","i","t","i","v","e","_","h","a","c","k","i","n","g">>]>>


_MAX_MATCHED_DISPLAY == 60

\* _truncate_match without the cut
_truncate_match_whole(text) == text

\* _truncate_match(text)
_truncate_match(text) ==
    IF Len(text) <= _MAX_MATCHED_DISPLAY THEN text
    ELSE SubSeq(text, 1, _MAX_MATCHED_DISPLAY) \o <<".", ".", ".">>

\* The finding PromptInjectionDetector.validate appends for one match
InjectionFinding(entry, text, m) ==
    ValidationFinding("prompt_injection", CRITICAL,
        <<"P","r","o","m","p","t"," ","i","n","j","e","c","t","i","o","n"," ",
          "p","a","t","t","e","r","n",":"," ">> \o entry.chars,
        m,
        <<MetaItem(<<"p","a","t","t","e","r","n">>, entry.chars, TRUE),
          MetaItem(<<"m","a","t","c","h","e","d">>,
                   _truncate_match(Group(text, m)), TRUE)>>)

\* PromptInjectionDetector.validate; the score is in tenths
PromptInjectionValidate(config, text) ==
    LET perFamily == [k \in DOMAIN _INJECTION_PATTERNS |->
                        LET ms == finditer(_INJECTION_PATTERNS[k].pattern, text)
                        IN [j \in DOMAIN ms |->
                              InjectionFinding(_INJECTION_PATTERNS[k], text, ms[j])]]
        findings  == Concat(perFamily)
        triggered == Len(findings)
        families  == Max2(Len(_INJECTION_PATTERNS), 1)
        \* (1.0 - min(triggered / families, 1.0)) * 100, rounded to 1 decimal
        safe      == Max2(families - triggered, 0)
    IN ValidationResult("prompt_injection", triggered = 0,
                        Some(RoundHalfEven(1000 * safe, families)), findings)

\* -------------------------------------------------------------------------
\* Forbidden-phrase detector (src/joshua7/validators/forbidden_phrases.py)
\* -------------------------------------------------------------------------
_DEFAULT_FORBIDDEN_PHRASES ==
    <<<<"a","s"," ","a","n"," ","a","i">>,
      <<"a","s"," ","a"," ","l","a","n","g","u","a","g","e"," ","m","o","d","e","l">>,
      <<"i"," ","c","a","n","n","o","t"," ","a","n","d"," ","w","i","l","l"," ","n","o","t">>,
      <<"i","'","m"," ","j","u","s","t"," ","a","n"," ","a","i">>,
      <<"d","e","l","v","e">>, <<"l","e","v","e","r","a","g","e">>,
      <<"s","y","n","e","r","g","y">>,
      <<"g","a","m","e","-","c","h","a","n","g","e","r">>,
      <<"c","i","r","c","l","e"," ","b","a","c","k">>,
      <<"d","e","e","p"," ","d","i","v","e">>, <<"u","n","p","a","c","k">>,
      <<"a","t"," ","t","h","e"," ","e","n","d"," ","o","f"," ","t","h","e"," ","d","a","y">>>>

\* The finding ForbiddenPhraseDetector.validate appends for one match
PhraseFinding(phrase, m) ==
    ValidationFinding("forbidden_phrases", ERROR,
        <<"F","o","r","b","i","d","d","e","n"," ","p","h","r","a","s","e"," ",
          "d","e","t","e","c","t","e","d",":"," ","'">> \o phrase \o <<"'">>,
        m,
        <<MetaItem(<<"p","h","r","a","s","e">>, phrase, TRUE)>>)

\* Does ForbiddenPhraseDetector.__init__ raise: iterating a value that is no
\* container is a TypeError
ForbiddenPhrasesInitRaises(config) ==
    "forbidden_phrases" \in DOMAIN config
    /\ config["forbidden_phrases"].ty \notin {"list", "str", "fill"}

\* ForbiddenPhraseDetector.__init__: the lower-cased phrases (the characters
\* of a string, when the value is a string)
ForbiddenPhrasesInit(config) ==
    LET v == Get(config, "forbidden_phrases", VList(_DEFAULT_FORBIDDEN_PHRASES))
        phrases == IF v.ty = "list" THEN v.items
                   ELSE LET cs == StrChars(v) IN [k \in DOMAIN cs |-> <<cs[k]>>]
    IN Tuple([k \in DOMAIN phrases |-> LowerStr(phrases[k])])

\* ForbiddenPhraseDetector.validate: re.escape(p) compiled with IGNORECASE
ForbiddenPhrasesValidate(config, text) ==
    LET phrases   == ForbiddenPhrasesInit(config)
        perPhrase == [k \in DOMAIN phrases |->
                        LET ms == finditer(Pattern(Word(phrases[k]), TRUE), text)
                        IN [j \in DOMAIN ms |-> PhraseFinding(phrases[k], ms[j])]]
        findings  == Concat(perPhrase)
    IN ValidationResult("forbidden_phrases", Len(findings) = 0, None, findings)

\* -------------------------------------------------------------------------
\* Brand-voice scorer (src/joshua7/validators/brand_voice.py)
\* -------------------------------------------------------------------------
Tone_professional ==
    <<<<"l","o","l">>, <<"o","m","g">>, <<"b","r","u","h">>,
      <<"g","o","n","n","a">>, <<"w","a","n","n","a">>,
      <<"k","i","n","d","a">>, <<"s","o","r","t","a">>, <<"t","b","h">>,
      <<"n","g","l">>, <<"f","r"," ","f","r">>, <<"y","o">>,
      <<"d","u","d","e">>, <<"b","r","o">>>>

Tone_casual ==
    <<<<"h","e","r","e","b","y">>,
      <<"a","f","o","r","e","m","e","n","t","i","o","n","e","d">>,
      <<"p","u","r","s","u","a","n","t">>,
      <<"n","o","t","w","i","t","h","s","t","a","n","d","i","n","g">>,
      <<"h","e","r","e","t","o","f","o","r","e">>,
      <<"t","h","e","r","e","i","n">>, <<"w","h","e","r","e","a","s">>>>

\* _TONE_PENALTY_WORDS.get(tone, [])
_TONE_PENALTY_WORDS(tone) ==
    IF tone = <<"p","r","o","f","e","s","s","i","o","n","a","l">>
    THEN Tone_professional
    ELSE IF tone = <<"c","a","s","u","a","l">> THEN Tone_casual
    ELSE <<>>

_POSITIVE_SIGNALS ==
    <<Pattern(Cat(<<WordB, Alt(<<Word(<<"w","e">>), Word(<<"o","u","r">>),
                                 Word(<<"u","s">>)>>), WordB>>), TRUE),
      Pattern(Cat(<<WordB, Alt(<<Word(<<"y","o","u">>),
                                 Word(<<"y","o","u","r">>)>>), WordB>>), TRUE)>>

\* _build_word_patterns(words): a literal for a word with a space, the word
\* between \b anchors otherwise
_build_word_patterns(words) ==
    Tuple([k \in DOMAIN words |->
        [word    |-> words[k],
         pattern |-> IF " " \in Range(words[k])
                     THEN Pattern(Word(words[k]), TRUE)
                     ELSE Pattern(Cat(<<WordB, Word(words[k]), WordB>>), TRUE)]])

\* len(text.split())
SplitCount(text) ==
    Cardinality({k \in DOMAIN text :
                   /\ text[k] \notin SpaceCh
                   /\ (k = 1 \/ text[k - 1] \in SpaceCh)})

\* The keywords BrandVoiceScorer.__init__ derives from brand_voice_keywords:
\* iterating a list yields its items, iterating a string its characters
BrandVoiceKeywords(v) ==
    IF v.ty = "list" THEN Tuple([k \in DOMAIN v.items |-> LowerStr(v.items[k])])
    ELSE LET cs == StrChars(v) IN Tuple([k \in DOMAIN cs |-> <<ToLower(cs[k])>>])

\* Does BrandVoiceScorer.__init__ raise: brand_voice_keywords is not iterable
\* (TypeError), or brand_voice_tone is not hashable (TypeError)
BrandVoiceInitRaises(config) ==
    \/ Get(config, "brand_voice_keywords", VList(<<>>)).ty
          \in {"num", "int", "bool", "none"}
    \/ Get(config, "brand_voice_tone", VStr(<<>>)).ty \in {"list", "dict"}

\* The text of a value inside an f-string
ValueChars(v) ==
    CASE v.ty = "num"  -> TenthsChars(v.num)
      [] v.ty = "none" -> <<"N","o","n","e">>
      [] v.ty = "list" -> <<"[">> \o Concat([k \in DOMAIN v.items |->
                             (IF k > 1 THEN <<",", " ">> ELSE <<>>)
                             \o <<"'">> \o v.items[k] \o <<"'">>]) \o <<"]">>
      [] OTHER         -> StrChars(v)

RECURSIVE SumSeq(_)
SumSeq(f) == IF f = <<>> THEN 0 ELSE Head(f) + SumSeq(Tail(f))

\* BrandVoiceScorer.validate; Raise when the comparison of the score with
\* a target that is not a number raises TypeError
BrandVoiceValidate(config, text) ==
    LET target   == Get(config, "brand_voice_target_score", VNum(600))
        keywords == BrandVoiceKeywords(Get(config, "brand_voice_keywords", VList(<<>>)))
        toneV    == Get(config, "brand_voice_tone",
                        VStr(<<"p","r","o","f","e","s","s","i","o","n","a","l">>))
        penalty  == _build_word_patterns(
                        IF IsStrV(toneV) THEN _TONE_PENALTY_WORDS(StrChars(toneV))
                        ELSE <<>>)
        counts   == Tuple([k \in DOMAIN penalty |->
                              Len(finditer(penalty[k].pattern, text))])
        hitIdx   == SelectSeq([k \in DOMAIN penalty |-> k], LAMBDA k : counts[k] > 0)
        warnings == Tuple([j \in DOMAIN hitIdx |->
                       ValidationFinding("brand_voice", WARNING,
                         <<"O","f","f","-","t","o","n","e"," ","w","o","r","d"," ",
                           "d","e","t","e","c","t","e","d",":"," ","'">>
                           \o penalty[hitIdx[j]].word \o <<"'", " ", "(">>
                           \o NatChars(counts[hitIdx[j]]) \o <<"x", ")">>,
                         None,
                         <<MetaItem(<<"w","o","r","d">>, penalty[hitIdx[j]].word, TRUE),
                           MetaItem(<<"c","o","u","n","t">>,
                                    NatChars(counts[hitIdx[j]]), FALSE)>>)])
        penalty_count == SumSeq(counts)
        word_count    == Max2(SplitCount(text), 1)
        nkw           == Max2(Len(keywords), 1)
        keyword_hits  == Cardinality({k \in DOMAIN keywords :
                            finditer(Pattern(Cat(<<WordB, Word(keywords[k]), WordB>>),
                                             TRUE), text) # <<>>})
        signal_hits   == SumSeq([k \in DOMAIN _POSITIVE_SIGNALS |->
                                   Len(finditer(_POSITIVE_SIGNALS[k], text))])
        \* the score as the fraction num / den
        den == nkw * word_count
        raw == (70 - Min2(penalty_count * 5, 40)) * den
               + 15 * keyword_hits * word_count
               + (IF 100 * signal_hits <= 15 * word_count
                  THEN 100 * signal_hits * nkw ELSE 15 * den)
        num == Max2(0, Min2(100 * den, raw))
        score  == RoundHalfEven(10 * num, den)
        passed == 10 * num >= target.num * den
        failure == ValidationFinding("brand_voice", ERROR,
                     <<"B","r","a","n","d"," ","v","o","i","c","e"," ","s","c","o","r","e"," ">>
                       \o TenthsChars(score)
                       \o <<" ","b","e","l","o","w"," ","t","a","r","g","e","t"," ">>
                       \o ValueChars(target),
                     None,
                     <<MetaItem(<<"s","c","o","r","e">>, TenthsChars(score), FALSE),
                       MetaItem(<<"t","a","r","g","e","t">>, ValueChars(target), FALSE)>>)
    IN IF target.ty # "num" THEN Raise
       ELSE ValidationResult("brand_voice", passed, Some(score),
                             IF passed THEN warnings ELSE Append(warnings, failure))

\* -------------------------------------------------------------------------
\* Readability scorer (src/joshua7/validators/readability.py).  The Flesch
\* reading ease fk and the grade level of a text come from the textstat
\* library; they are inputs of the model, in tenths.
\* -------------------------------------------------------------------------
\* ReadabilityScorer.validate; Raise when a bound that is not a number is
\* compared with the score (TypeError)
ReadabilityValidate(config, fk, grade) ==
    LET lo == Get(config, "readability_min_score", VNum(300))
        hi == Get(config, "readability_max_score", VNum(800))
        meta == <<MetaItem(<<"f","l","e","s","c","h","_","s","c","o","r","e">>,
                           TenthsChars(fk), FALSE),
                  MetaItem(<<"g","r","a","d","e","_","l","e","v","e","l">>,
                           TenthsChars(grade), FALSE)>>
        threshold(which) == <<MetaItem(<<"t","h","r","e","s","h","o","l","d">>, which, TRUE)>>
        head == <<"F","l","e","s","c","h"," ","s","c","o","r","e"," ">> \o TenthsChars(fk)
        finding ==
            IF fk < lo.num
            THEN ValidationFinding("readability", WARNING,
                   <<"C","o","n","t","e","n","t"," ","t","o","o"," ","c","o","m","p","l","e","x",":"," ">>
                     \o head \o <<" ","b","e","l","o","w"," ","m","i","n","i","m","u","m"," ">>
                     \o ValueChars(lo),
                   None, meta \o threshold(<<"m","i","n">>))
            ELSE IF fk > hi.num
            THEN ValidationFinding("readability", WARNING,
                   <<"C","o","n","t","e","n","t"," ","t","o","o"," ","s","i","m","p","l","e",":"," ">>
                     \o head \o <<" ","a","b","o","v","e"," ","m","a","x","i","m","u","m"," ">>
                     \o ValueChars(hi),
                   None, meta \o threshold(<<"m","a","x">>))
            ELSE ValidationFinding("readability", INFO,
                   head \o <<",", " ","g","r","a","d","e"," ","l","e","v","e","l"," ">>
                     \o TenthsChars(grade),
                   None, meta)
    IN IF lo.ty # "num" THEN Raise
       ELSE IF lo.num <= fk /\ hi.ty # "num" THEN Raise
       ELSE ValidationResult("readability", lo.num <= fk /\ fk <= hi.num, Some(fk),
                             <<finding>>)

\* -------------------------------------------------------------------------
\* RISK_TAXONOMY_v0 (src/joshua7/engine.py).  Weights are in hundredths.
\* -------------------------------------------------------------------------
\* Severity points that count a WARNING as 10
_SEVERITY_POINTS_flat(severity) ==
    CASE severity = ERROR    -> 40
      [] severity = CRITICAL -> 80
      [] severity = WARNING  -> 10
      [] OTHER               -> 0

\* _SEVERITY_POINTS.get(severity, 0)
_SEVERITY_POINTS(severity) ==
    CASE severity = INFO     -> 0
      [] severity = WARNING  -> 15
      [] severity = ERROR    -> 40
      [] severity = CRITICAL -> 80
      [] OTHER               -> 0

\* Axes whose weights do not add up to one
_RISK_AXES_heavy ==
    <<[axis |-> "A", weight |-> 30, validators |-> <<"forbidden_phrases", "readability">>],
      [axis |-> "B", weight |-> 25, validators |-> <<"readability">>],
      [axis |-> "C", weight |-> 20, validators |-> <<"brand_voice">>],
      [axis |-> "D", weight |-> 15, validators |-> <<"pii">>],
      [axis |-> "E", weight |-> 15, validators |-> <<"prompt_injection">>]>>
_RISK_AXES ==
    <<[axis |-> "A", weight |-> 30, validators |-> <<"forbidden_phrases", "readability">>],
      [axis |-> "B", weight |-> 25, validators |-> <<"readability">>],
      [axis |-> "C", weight |-> 20, validators |-> <<"brand_voice">>],
      [axis |-> "D", weight |-> 15, validators |-> <<"pii">>],
      [axis |-> "E", weight |-> 10, validators |-> <<"prompt_injection">>]>>

\* Bands that put a boundary score in the lower band
_risk_level_exclusive(score) ==
    IF score <= 200 THEN "GREEN"
    ELSE IF score <= 500 THEN "YELLOW"
    ELSE IF score <= 800 THEN "ORANGE"
    ELSE "RED"
\* _risk_level(score), the score in tenths
_risk_level(score) ==
    IF score < 200 THEN "GREEN"
    ELSE IF score < 500 THEN "YELLOW"
    ELSE IF score < 800 THEN "ORANGE"
    ELSE "RED"

\* vname in {r.validator_name: r for r in results}
InResults(results, vname) ==
    \E k \in DOMAIN results : results[k].validator_name = vname

\* {r.validator_name: r for r in results}[vname]: the last result of that name
results_map(results, vname) ==
    results[SetMax({k \in DOMAIN results : results[k].validator_name = vname})]

\* Points that invert a score without holding the difference at zero
ResultPoints_unclamped(result) ==
    IF result.passed /\ result.findings = <<>> THEN 0
    ELSE IF ~result.passed /\ result.score # None
    THEN 1000 - result.score[1]
    ELSE Min2(10 * SumSeq([k \in DOMAIN result.findings |->
                             _SEVERITY_POINTS(result.findings[k].severity)]),
              1000)
\* The points one contributing result adds to total_points, in tenths
ResultPoints(result) ==
    IF result.passed /\ result.findings = <<>> THEN 0
    ELSE IF ~result.passed /\ result.score # None
    THEN Max2(0, 1000 - result.score[1])
    ELSE Min2(10 * SumSeq([k \in DOMAIN result.findings |->
                             _SEVERITY_POINTS(result.findings[k].severity)]),
              1000)

\* Axis scores are fractions over AxisDen: tenths, divided by the number of
\* contributors, which is at most the longest validators list of an axis
MaxContributors ==
    SetMax({Len(_RISK_AXES[k].validators) : k \in DOMAIN _RISK_AXES})

RECURSIVE Factorial(_)
Factorial(n) == IF n <= 1 THEN 1 ELSE n * Factorial(n - 1)

AxisDen == 10 * Factorial(MaxContributors)

\* An axis score that adds the points up without dividing by the number of
\* contributors
_axis_score_from_results_total(validator_names, results) ==
    LET present == SelectSeq(validator_names,
                             LAMBDA v : InResults(results, v))
    IN Min2(SumSeq([k \in DOMAIN present |->
                      ResultPoints(results_map(results, present[k]))])
                * Factorial(MaxContributors),
            100 * AxisDen)

\* _axis_score_from_results(validator_names, results_map), times AxisDen
_axis_score_from_results(validator_names, results) ==
    LET present == SelectSeq(validator_names,
                             LAMBDA v : InResults(results, v))
        total_points == SumSeq([k \in DOMAIN present |->
                                  ResultPoints(results_map(results, present[k]))])
        contributor_count == Len(present)
    IN IF contributor_count = 0 THEN 0
       ELSE Min2((total_points * Factorial(MaxContributors)) \div contributor_count,
                 100 * AxisDen)

\* An escalation that does not grow with the number of axes
_critical_escalation_one(results) ==
    IF \E k \in DOMAIN results : \E j \in DOMAIN results[k].findings :
           results[k].findings[j].severity = CRITICAL
    THEN 40 ELSE 0

\* _critical_escalation(results), in whole points
_critical_escalation(results) ==
    LET hasCritical(v) ==
            /\ InResults(results, v)
            /\ \E k \in DOMAIN results_map(results, v).findings :
                  results_map(results, v).findings[k].severity = CRITICAL
        axes_with_criticals ==
            {_RISK_AXES[a].axis : a \in {b \in DOMAIN _RISK_AXES :
                \E k \in DOMAIN _RISK_AXES[b].validators :
                    hasCritical(_RISK_AXES[b].validators[k])}}
        n == Cardinality(axes_with_criticals)
    IN IF n = 0 THEN 0 ELSE IF n = 1 THEN 40 ELSE IF n = 2 THEN 80 ELSE 100

\* A taxonomy whose composite is the highest axis score instead of the
\* weighted sum
compute_risk_taxonomy_worst(results) ==
    LET raw == Tuple([a \in DOMAIN _RISK_AXES |->
                  _axis_score_from_results(_RISK_AXES[a].validators, results)])
        composite == RoundHalfEven(10 * SetMax(Range(raw)), AxisDen)
    IN [composite_risk_score |-> composite,
        risk_level |-> _risk_level(composite),
        axes |-> Tuple([a \in DOMAIN _RISK_AXES |->
                    [axis |-> _RISK_AXES[a].axis,
                     weight |-> _RISK_AXES[a].weight,
                     raw_score |-> RoundHalfEven(10 * raw[a], AxisDen),
                     weighted_score |-> 0]])]

\* compute_risk_taxonomy(results): composite_risk_score and raw_score in
\* tenths, weighted_score in hundredths
compute_risk_taxonomy(results) ==
    LET raw == Tuple([a \in DOMAIN _RISK_AXES |->
                  _axis_score_from_results(_RISK_AXES[a].validators, results)])
        \* raw * weight, times 100 * AxisDen
        weighted == Tuple([a \in DOMAIN _RISK_AXES |-> raw[a] * _RISK_AXES[a].weight])
        unit == 100 * AxisDen
        weighted_sum == SumSeq(weighted)
        escalation == _critical_escalation(results)
        composite == RoundHalfEven(
                        10 * Min2(weighted_sum + escalation * unit, 100 * unit), unit)
    IN [composite_risk_score |-> composite,
        risk_level |-> _risk_level(composite),
        axes |-> Tuple([a \in DOMAIN _RISK_AXES |->
                    [axis |-> _RISK_AXES[a].axis,
                     weight |-> _RISK_AXES[a].weight,
                     raw_score |-> RoundHalfEven(10 * raw[a], AxisDen),
                     weighted_score |-> RoundHalfEven(100 * weighted[a], unit)]])]

\* -------------------------------------------------------------------------
\* Settings (src/joshua7/config.py) and requests (src/joshua7/models.py)
\* -------------------------------------------------------------------------
MAX_TEXT_LENGTH == 500000

\* Settings().model_dump() with the defaults of the class; max_len is
\* max_text_length and key is api_key
Settings(max_len, key) ==
    [app_name |-> VStr(<<"J","o","s","h","u","a"," ","7">>),
     debug |-> VBool(FALSE),
     host |-> VStr(<<"1","2","7",".","0",".","0",".","1">>),
     port |-> VInt(8000),
     log_level |-> VStr(<<"i","n","f","o">>),
     max_text_length |-> VInt(max_len),
     max_findings_per_validator |-> VInt(50),
     forbidden_phrases |-> VList(_DEFAULT_FORBIDDEN_PHRASES),
     pii_patterns_enabled |->
         VList([k \in DOMAIN _PII_PATTERNS |-> _PII_PATTERNS[k].chars]),
     brand_voice_target_score |-> VNum(600),
     brand_voice_keywords |-> VList(<<>>),
     brand_voice_tone |-> VStr(<<"p","r","o","f","e","s","s","i","o","n","a","l">>),
     readability_min_score |-> VNum(300),
     readability_max_score |-> VNum(800),
     api_key |-> VStr(key),
     cors_allowed_origins |-> VList(<<<<"*">>>>),
     rate_limit_rpm |-> VInt(60),
     rate_limit_burst |-> VInt(10),
     max_request_body_bytes |-> VInt(4 * 1024 * 1024),
     trusted_hosts |-> VList(<<<<"*">>>>)]

\* A text is its leading characters (body) followed by pad copies of the
\* filler "~".  No pattern of a validator matches a filler except "." inside
\* a template, which needs a closing delimiter after it, so a run of fillers
\* at the end of the text acts on every validator as a single filler does.
Text(body, pad) == [body |-> body, pad |-> pad]

\* len(text)
TextLen(text) == Len(text.body) + text.pad

\* The characters a validator scans: the normalised body and one filler for
\* a non-empty padding
Scanned(text) ==
    normalize_text(text.body) \o (IF text.pad > 0 THEN <<"~">> ELSE <<>>)

\* ValidationRequest(text=..., validators=..., config_overrides=...): does
\* pydantic accept the fields (text: min_length=1, max_length=MAX_TEXT_LENGTH)
RequestValid(text) == TextLen(text) >= 1 /\ TextLen(text) <= MAX_TEXT_LENGTH

ValidationRequest(text, validators, config_overrides) ==
    [text |-> text, validators |-> validators,
     config_overrides |-> config_overrides]

\* -------------------------------------------------------------------------
\* Engine (src/joshua7/engine.py)
\* -------------------------------------------------------------------------
\* The keys of _REGISTRY, in insertion order
_REGISTRY ==
    <<"forbidden_phrases", "pii", "brand_voice", "prompt_injection", "readability">>

\* A locked set that leaves out the PII pattern list
_LOCKED_OVERRIDE_KEYS_short == {"forbidden_phrases", "max_text_length"}
_LOCKED_OVERRIDE_KEYS == {"pii_patterns_enabled", "forbidden_phrases", "max_text_length"}

max_override_size == 16384

RECURSIVE SumOver(_, _)
\* The sum of f[k] for k in the finite set S
SumOver(f, S) ==
    IF S = {} THEN 0
    ELSE LET k == CHOOSE x \in S : TRUE IN f[k] + SumOver(f, S \ {k})

RECURSIVE StrLen(_)
\* len(str(v))
StrLen(v) ==
    CASE v.ty = "num"  -> Len(TenthsChars(v.num))
      [] v.ty = "int"  -> Len(NatChars(v.int))
      [] v.ty = "bool" -> IF v.bool THEN 4 ELSE 5
      [] v.ty = "none" -> 4
      [] v.ty = "str"  -> Len(v.chars) + 2
      [] v.ty = "fill" -> v.n + 2
      [] v.ty = "list" ->
           2 + SumSeq([k \in DOMAIN v.items |-> Len(v.items[k]) + 2])
             + (IF Len(v.items) > 1 THEN 2 * (Len(v.items) - 1) ELSE 0)
      [] v.ty = "dict" ->
           2 + SumOver([k \in DOMAIN v.items |-> Len(k) + 4 + StrLen(v.items[k])],
                       DOMAIN v.items)
             + (IF Cardinality(DOMAIN v.items) > 1
                THEN 2 * (Cardinality(DOMAIN v.items) - 1) ELSE 0)

\* The top-level values of a request's config_overrides are len(str(v)) long
\* when measured by _sanitize_overrides; a nested dict is measured by StrLen
\* as well.
_sanitize_overrides(raw) ==
    LET serialized_len ==
            SumOver([k \in DOMAIN raw |-> Len(k) + StrLen(raw[k])], DOMAIN raw)
        kept(name) == {k \in DOMAIN raw[name].items : k \notin _LOCKED_OVERRIDE_KEYS}
        names == {name \in DOMAIN raw : raw[name].ty = "dict" /\ kept(name) # {}}
    IN IF serialized_len > max_override_size THEN <<>>
       ELSE [name \in names |-> [k \in kept(name) |-> raw[name].items[k]]]

\* A resolution that walks the registry and keeps the requested names
_resolve_validators_by_registry(names) ==
    IF "all" \in Range(names) THEN _REGISTRY
    ELSE SelectSeq(_REGISTRY, LAMBDA n : n \in Range(names))
\* ValidationEngine._resolve_validators(names)
_resolve_validators(names) ==
    IF "all" \in Range(names) THEN _REGISTRY
    ELSE SelectSeq(names, LAMBDA n : n \in Range(_REGISTRY))

\* Does _REGISTRY[name](config=config) raise
InitRaises(name, config) ==
    \/ name = "brand_voice" /\ BrandVoiceInitRaises(config)
    \/ name = "pii" /\ PiiInitRaises(config)
    \/ name = "forbidden_phrases" /\ ForbiddenPhrasesInitRaises(config)

\* validator.validate(normalized) of the instance built from config: a
\* result, or Raise
Validate(name, config, scanned, oracle) ==
    CASE name = "forbidden_phrases" -> ForbiddenPhrasesValidate(config, scanned)
      [] name = "pii"               -> PiiValidate(config, scanned)
      [] name = "brand_voice"       -> BrandVoiceValidate(config, scanned)
      [] name = "prompt_injection"  -> PromptInjectionValidate(config, scanned)
      [] name = "readability"       ->
             ReadabilityValidate(config, oracle.fk, oracle.grade)

\* The result the except branch of run substitutes for a validator that
\* raised
ExceptionResult(name) == ValidationResult(name, FALSE, None, <<>>)

\* ValidationEngine._settings_to_config(): self._settings.model_dump()
_settings_to_config(self) == self._settings

\* ValidationEngine._build_validators(): one instance per registry entry,
\* each built from the dumped settings.  An instance is the configuration it
\* was built from: what __init__ derives from it is never assigned again.
_build_validators(s) == [name \in Range(_REGISTRY) |-> [config |-> s]]

\* ValidationEngine(settings)
ValidationEngine(s) == [_settings |-> s, _validators |-> _build_validators(s)]

\* A loop that stores the transient instance in the registry
RegistryAfter_stored(registry, name, instance) ==
    [registry EXCEPT ![name] = instance]
\* self._validators after `validator = _REGISTRY[name](config=merged)`: the
\* transient instance is bound to the local name only
RegistryAfter(registry, name, instance) == registry
\* The configuration the instance used for name is built from: the merged
\* view when the sanitised overrides have an entry for name, the settings of
\* the cached registry instance otherwise
InstanceConfig(self, overrides, name) ==
    IF name \in DOMAIN overrides
    THEN Merge(_settings_to_config(self), overrides[name])
    ELSE self._validators[name].config

\* What leaves run when building a transient instance raises
Propagate == [exc |-> "propagate"]

\* The try/except of run around validate: the result, or the substitute
\* for a validator that raised
Contain(name, result) ==
    IF result = Raise THEN ExceptionResult(name) ELSE result

\* One pass of the loop of run for name: Propagate when building the
\* transient instance raises (outside the try), else the appended result
RunOne(self, overrides, name, scanned, oracle) ==
    IF name \in DOMAIN overrides
       /\ InitRaises(name, InstanceConfig(self, overrides, name))
    THEN Propagate
    ELSE Contain(name, Validate(name, InstanceConfig(self, overrides, name),
                                scanned, oracle))

RECURSIVE CommaChars(_)
\* f"{n:,}" for a natural number n: the digits in groups of three
CommaChars(n) ==
    IF n < 1000 THEN NatChars(n)
    ELSE LET r == n % 1000
         IN CommaChars(n \div 1000) \o <<",">>
            \o (IF r < 10 THEN <<"0", "0">> ELSE IF r < 100 THEN <<"0">> ELSE <<>>)
            \o NatChars(r)

\* A length test that also turns away a text of exactly max_len characters
ExceedsLimit_inclusive(text, max_len) == TextLen(text) >= max_len
\* len(request.text) > max_len
ExceedsLimit(text, max_len) == TextLen(text) > max_len

\* The message of the finding of the length gate
GateMessage(text, max_len) ==
    <<"T","e","x","t"," ","l","e","n","g","t","h"," ">>
      \o CommaChars(TextLen(text))
      \o <<" ","e","x","c","e","e","d","s"," ","c","o","n","f","i","g",
           "u","r","e","d"," ","m","a","x","i","m","u","m"," ","o","f"," ">>
      \o CommaChars(max_len)
      \o <<" ","c","h","a","r","a","c","t","e","r","s",".">>

\* A gate that reports no result at all
GateResults_empty(text, max_len) == <<>>
\* results of the response of the length gate
GateResults(text, max_len) ==
    <<ValidationResult("_engine", FALSE, None,
        <<ValidationFinding("_engine", ERROR, GateMessage(text, max_len),
                            None, <<>>)>>)>>

\* A gate that reports the risk of an empty run
GateRisk_green == [composite_risk_score |-> 0, risk_level |-> "GREEN", axes |-> <<>>]
\* risk of the response of the length gate
GateRisk == [composite_risk_score |-> 1000, risk_level |-> "RED", axes |-> <<>>]

\* The response of the length gate of run
GateResponse(rid, text, max_len) ==
    [request_id |-> rid,
     passed |-> FALSE,
     results |-> GateResults(text, max_len),
     risk |-> GateRisk,
     text_length |-> TextLen(text),
     validators_run |-> 0]

\* uuid.uuid4().hex
NewRequestId == "uuid4"

\* request_id=None
NoRequestId == "None"

\* The placeholder for the response of a call that raised
NoResponse == [raised |-> TRUE]

\* An aggregate that lets an empty run pass
all_passed_vacuous(results) == \A k \in DOMAIN results : results[k].passed
\* bool(results) and all(r.passed for r in results)
all_passed(results) ==
    results # <<>> /\ \A k \in DOMAIN results : results[k].passed

\* The element of a one-element set.  Only({F(x) : x \in {e}}) is F(e) with
\* e evaluated once, however often F uses it.
Only(S) == CHOOSE x \in S : TRUE

\* The loop of run over the selected validators: per position, the appended
\* result, or Propagate where building the transient instance raised
Dispatch(self, request, scanned, oracle) ==
    LET overrides == _sanitize_overrides(request.config_overrides)
        selected  == _resolve_validators(request.validators)
    IN Tuple([k \in DOMAIN selected |->
                 RunOne(self, overrides, selected[k], scanned, oracle)])

\* What leaves run after the loop: the exception of the first position that
\* raised, else the response built from the results
Respond(request, rid, outcome) ==
    LET selected == _resolve_validators(request.validators)
        failedAt == {k \in DOMAIN selected : outcome[k] = Propagate}
        results  == outcome
    IN IF failedAt # {}
       THEN [status |-> "raised", response |-> NoResponse, normalized |-> TRUE,
             invoked |-> SubSeq(selected, 1, SetMin(failedAt) - 1)]
       ELSE [status |-> "returned",
             response |->
                [request_id |-> rid,
                 passed |-> all_passed(results),
                 results |-> results,
                 risk |-> Only({compute_risk_taxonomy(r) : r \in {results}}),
                 text_length |-> TextLen(request.text),
                 validators_run |-> Len(results)],
             normalized |-> TRUE, invoked |-> selected]

\* ValidationEngine.run(request, request_id): status "returned" with the
\* response, or "raised" when an exception leaves run.  normalized records
\* whether normalize_text was called and invoked lists the validators whose
\* validate was called.
run(self, request, request_id, oracle) ==
    LET rid     == IF request_id \in {NoRequestId, ""} THEN NewRequestId ELSE request_id
        max_len == self._settings.max_text_length.int
    IN IF ExceedsLimit(request.text, max_len)
       THEN [status |-> "returned",
             response |-> GateResponse(rid, request.text, max_len),
             normalized |-> FALSE, invoked |-> <<>>]
       ELSE Only({Respond(request, rid, outcome) :
                    outcome \in {Dispatch(self, request, scanned, oracle) :
                                   scanned \in {Scanned(request.text)}}})

\* -------------------------------------------------------------------------
\* The inputs of the model
\* -------------------------------------------------------------------------
\* The pieces a request text is put together from, joined by single spaces
Fragments ==
    <<<<"H","i",".">>,
      <<"a","@","b",".","c","o">>,
      <<"x","@","y",".","i","o">>,
      <<"1","2","3","-","4","5","-","6","7","8","9">>,
      <<"5","5","5","-","1","2","3","-","4","5","6","7">>,
      <<"4","1","1","1","1","1","1","1","1","1","1","1","1","1","1","1">>,
      <<"{","{","a","@","b",".","c","o","}","}">>,
      <<"i","g","n","o","r","e"," ","p","r","i","o","r"," ","r","u","l","e","s">>,
      <<"y","o"," ","w","e"," ","d","e","l","v","e">>>>

\* The number of fragments of the longest text
MaxParts == 2

\* A configured max_text_length small enough for the texts to reach
SmallLimit == 32

RECURSIVE Join(_)
\* " ".join(parts)
Join(parts) ==
    IF Len(parts) = 1 THEN parts[1]
    ELSE parts[1] \o <<" ">> \o Join(Tail(parts))

\* The bodies of one to MaxParts fragments
Bodies ==
    UNION {{Join([k \in 1..n |-> Fragments[ix[k]]]) :
              ix \in [1..n -> DOMAIN Fragments]} : n \in 1..MaxParts}

\* The texts the engine-level requests use
CleanBody == Fragments[1]
MixedBody == Join(<<Fragments[2], Fragments[7], Fragments[9]>>)

\* The values of max_text_length the engine is configured with
Limits == {SmallLimit, MAX_TEXT_LENGTH, MAX_TEXT_LENGTH + 1}

\* The paddings that bring a body to no padding, to exactly limit characters
\* and to one more
Pads(body, limit) ==
    {0} \cup {n \in {limit - Len(body), limit + 1 - Len(body)} : n > 0}

\* The validators lists of the requests
Selections ==
    {<<"all">>, <<>>, <<"nonexistent">>, <<"pii">>, <<"pii", "prompt_injection">>,
     <<"readability", "nonexistent", "brand_voice">>, <<"pii", "pii">>,
     <<"brand_voice", "all">>}

\* The request ids handed to run
RequestIds == {NoRequestId, "", "req-1"}

\* The Flesch reading ease and grade level the readability library reports
Oracles ==
    {[fk |-> f, grade |-> 80] : f \in {-105, 300, 555, 800, 1210}}

\* The override dicts of one validator: well-typed and ill-typed values of
\* the keys the validators read, locked keys, and an unknown key
OverrideItems ==
    {[brand_voice_target_score |-> VNum(0)],
     [brand_voice_target_score |-> VNum(1000)],
     [brand_voice_target_score |-> VStr(<<"h","i","g","h">>)],
     [brand_voice_keywords |-> VList(<<<<"D","e","l","v","e">>>>)],
     [brand_voice_keywords |-> VInt(5)],
     [brand_voice_tone |-> VStr(<<"c","a","s","u","a","l">>)],
     [brand_voice_tone |-> VList(<<<<"c","a","s","u","a","l">>>>)],
     [readability_min_score |-> VNum(0)],
     [readability_min_score |-> VStr(<<"l","o","w">>)],
     [readability_max_score |-> VNone],
     [unknown_key |-> VBool(TRUE)]}

\* The values a request gives a locked key
LockedValues ==
    {VList(<<>>), VList(<<<<"b","a","n","a","n","a">>>>), VInt(1), VNone,
     VFill(max_override_size)}

\* The configuration keys a request may not override
LockedKeyNames == {"pii_patterns_enabled", "forbidden_phrases", "max_text_length"}

\* items with key k set to v
WithKey(items, k, v) ==
    [j \in (DOMAIN items) \cup {k} |-> IF j = k THEN v ELSE items[j]]

\* items without key k
WithoutKey(items, k) == [j \in (DOMAIN items) \ {k} |-> items[j]]

\* The config_overrides of the requests: none, one validator with a dict,
\* the same with a locked key added, and values that are not dicts
OverrideSets ==
    {<<>>}
    \cup {[c \in {name} |-> VDict(items)] :
             name \in {"brand_voice", "readability"}, items \in OverrideItems}
    \cup {[c \in {name} |-> VDict(WithKey(items, k, v))] :
             name \in {"brand_voice", "pii", "forbidden_phrases"},
             items \in {<<>>, [brand_voice_target_score |-> VNum(1000)]},
             k \in LockedKeyNames, v \in LockedValues}
    \cup {[c \in {"pii"} |-> v] : v \in {VInt(1), VNone, VDict(<<>>)}}
    \cup {[c \in {"nonexistent"} |-> VDict([debug |-> VBool(TRUE)])]}

\* The requests a client builds.  Every body is scanned by the pattern
\* validators under the small limit; the engine-level bodies go with every
\* padding, selection and request id under every limit; the overrides go
\* with the mixed body and every validator.
TextRequests ==
    {[request |-> ValidationRequest(Text(b, 0), sel, <<>>), request_id |-> NoRequestId] :
        b \in Bodies,
        sel \in {<<"pii", "prompt_injection">>,
                 <<"forbidden_phrases", "brand_voice">>}}

SelectionRequests(limit) ==
    {[request |-> ValidationRequest(Text(b, p), sel, <<>>), request_id |-> rid] :
        b \in {CleanBody, MixedBody},
        p \in Pads(CleanBody, limit) \cup Pads(MixedBody, limit),
        sel \in Selections, rid \in RequestIds}

OverrideRequests ==
    {[request |-> ValidationRequest(Text(MixedBody, 0), <<"all">>, ov),
      request_id |-> "req-1"] : ov \in OverrideSets}

\* Texts with a PII value or an injection phrase split by a code point that
\* does not print: a zero-width space, a soft hyphen, a NUL; and an injection
\* phrase spelt with a Cyrillic letter
EvasionBodies ==
    {<<"a","@","b","U+200B",".","c","o">>,
     <<"a","@","b","U+00AD",".","c","o">>,
     <<"a","@","b","U+0000",".","c","o">>,
     <<"i","g","n","U+043E","r","e"," ","p","r","i","o","r"," ","r","u","l","e","s">>,
     <<"i","g","U+00AD","n","o","r","e"," ","p","r","i","o","r"," ","r","u","l","e","s">>}

EvasionRequests ==
    {[request |-> ValidationRequest(Text(b, 0), <<"pii", "prompt_injection">>, <<>>),
      request_id |-> NoRequestId] : b \in EvasionBodies}

\* A text with a phrase of its own and none of the default phrases, checked
\* for that phrase by a per-request phrase list, alone and beside a key
\* that is not locked
PhraseBody == <<"a"," ","b","a","n","a","n","a">>

PhraseRequests ==
    {[request |->
         ValidationRequest(Text(PhraseBody, 0), <<"forbidden_phrases">>,
            [c \in {"forbidden_phrases"} |->
                VDict(WithKey(items, "forbidden_phrases",
                              VList(<<<<"b","a","n","a","n","a">>>>)))]),
      request_id |-> NoRequestId] : items \in {<<>>, [debug |-> VBool(TRUE)]}}

\* A template placeholder of n characters in all: "{{", a payload, "}}"
Placeholder(n) ==
    <<"{", "{">> \o Tuple([i \in 1..(n - 4) |-> "A"]) \o <<"}", "}">>

\* Placeholders just below, at and above the length that is displayed whole;
\* each is the whole text of a request for the prompt-injection check
PlaceholderLengths ==
    {_MAX_MATCHED_DISPLAY - 1, _MAX_MATCHED_DISPLAY, _MAX_MATCHED_DISPLAY + 1,
     _MAX_MATCHED_DISPLAY + 3, _MAX_MATCHED_DISPLAY + 4}

LongRequests ==
    {[request |-> ValidationRequest(Text(Placeholder(n), 0),
                                    <<"prompt_injection">>, <<>>),
      request_id |-> NoRequestId] : n \in PlaceholderLengths}

\* Texts in which a default phrase occurs twice: overlapping itself in one
\* character, side by side, and in capitals
OverlapBodies ==
    {<<"i","'","m"," ","j","u","s","t"," ","a","n"," ","a","i","'","m"," ",
       "j","u","s","t"," ","a","n"," ","a","i">>,
     <<"u","n","p","a","c","k","u","n","p","a","c","k">>,
     <<"D","e","l","v","e"," ","D","E","L","V","E">>}

OverlapRequests ==
    {[request |-> ValidationRequest(Text(b, 0), <<"forbidden_phrases">>, <<>>),
      request_id |-> NoRequestId] : b \in OverlapBodies}

RECURSIVE Repeated(_, _)
\* s * n
Repeated(s, n) == IF n = 0 THEN <<>> ELSE s \o Repeated(s, n - 1)

\* A max_findings_per_validator small enough for a text to exceed
SmallCap == 2

\* Settings(max_findings_per_validator=SmallCap)
CappedSettings ==
    [Settings(MAX_TEXT_LENGTH, <<"s","e","c","r","e","t">>)
        EXCEPT !.max_findings_per_validator = VInt(SmallCap)]

\* Texts with as many occurrences of a default phrase as SmallCap, and with
\* one more
FloodRequests ==
    {[request |->
         ValidationRequest(Text(Repeated(<<"d","e","l","v","e"," ">>, SmallCap + more), 0),
                           <<"forbidden_phrases">>, <<>>),
      request_id |-> NoRequestId] : more \in {0, 1}}

\* A text of seven words that are off the professional tone and nothing else
\* a check objects to, checked against a brand-voice target of 0
ToneBody ==
    <<"y","o"," ","t","b","h"," ","n","g","l"," ","b","r","o"," ",
      "l","o","l"," ","o","m","g"," ","d","u","d","e">>

ToneRequests ==
    {[request |->
         ValidationRequest(Text(ToneBody, 0), sel,
            [c \in {"brand_voice"} |->
                VDict([brand_voice_target_score |-> VNum(0)])]),
      request_id |-> NoRequestId] : sel \in {<<"brand_voice">>, <<"all">>}}

Calls(limit) ==
    SelectionRequests(limit)
    \cup (IF limit = SmallLimit
          THEN TextRequests \cup OverrideRequests \cup EvasionRequests
               \cup PhraseRequests \cup OverlapRequests
          ELSE {})
    \cup (IF limit = MAX_TEXT_LENGTH THEN LongRequests \cup FloodRequests
                                       \cup ToneRequests
          ELSE {})

RECURSIVE RegistryAfterLoop(_, _, _, _)
\* self._validators after the loop of run over names, which ends early when
\* building a transient instance raises
RegistryAfterLoop(self, registry, overrides, names) ==
    IF names = <<>> THEN registry
    ELSE IF Head(names) \notin DOMAIN overrides
    THEN RegistryAfterLoop(self, registry, overrides, Tail(names))
    ELSE IF InitRaises(Head(names), InstanceConfig(self, overrides, Head(names)))
    THEN registry
    ELSE RegistryAfterLoop(self,
             RegistryAfter(registry, Head(names),
                 [config |-> InstanceConfig(self, overrides, Head(names))]),
             overrides, Tail(names))

\* self._validators after run(request)
RegistryAfterRun(self, request) ==
    IF ExceedsLimit(request.text, self._settings.max_text_length.int)
    THEN self._validators
    ELSE RegistryAfterLoop(self, self._validators,
                           _sanitize_overrides(request.config_overrides),
                           _resolve_validators(request.validators))
NoOracle == [fk |-> 0, grade |-> 0]

\* What the readability library can report to a call: nothing when the call
\* does not reach the readability scorer
OracleChoices(req, limit) ==
    IF ~ExceedsLimit(req.text, limit)
       /\ "readability" \in Range(_resolve_validators(req.validators))
    THEN Oracles ELSE {NoOracle}

\* -------------------------------------------------------------------------
\* The rate limiter (src/joshua7/api/security.py)
\* -------------------------------------------------------------------------
\* The addresses requests come from and name
Clients == {"10.0.0.1", "10.0.0.2"}

\* RateLimitMiddleware(app, requests_per_minute, burst); _window is a
\* defaultdict(list), an absent client reads as the empty list
RateLimitMiddleware(requests_per_minute, burst) ==
    [rpm |-> requests_per_minute, burst |-> burst,
     _window |-> [c \in Clients |-> <<>>]]

\* RateLimitMiddleware(app) with the defaults of its constructor
DefaultLimiter == RateLimitMiddleware(60, 10)

\* RateLimitMiddleware._client_ip; forwarded is the x-forwarded-for header
\* split at its commas, empty when the header is absent
_client_ip(req) ==
    IF req.forwarded # <<>> THEN req.forwarded[1] ELSE req.host

\* _cleanup with a window of 59 seconds
_cleanup_short(timestamps, t) ==
    SelectSeq(timestamps, LAMBDA x : x > t - 590)

\* RateLimitMiddleware._cleanup; times are in tenths of a second
_cleanup(timestamps, t) ==
    LET cutoff == t - 600
    IN SelectSeq(timestamps, LAMBDA x : x > cutoff)

\* A header that is not set
NoHeader == -1

\* The window of a client after a rejection at time t, if the rejected
\* request were recorded too
Rejected_recorded(kept, t) == Append(kept, t)

\* The window of a client after a rejection: dispatch returns its 429 before
\* the append
Rejected(kept, t) == kept

\* RateLimitMiddleware.dispatch at time t up to its answer or its
\* await call_next(request): the middleware afterwards, the status of the
\* answer (0 while the request is with the application), its Retry-After in
\* seconds (int truncates), and whether the X-RateLimit headers are set on
\* the way back
dispatch(self, req, t) ==
    IF req.path \in {"/health", "/docs", "/redoc", "/openapi.json"}
    THEN [self |-> self, status |-> 0, retry_after |-> NoHeader, counted |-> FALSE]
    ELSE LET client == _client_ip(req)
             kept   == _cleanup(self._window[client], t)
         IN IF Len(kept) >= self.rpm
            THEN LET retry_after == IF kept # <<>> THEN 600 - (t - kept[1]) ELSE 600
                 IN [self |-> [self EXCEPT !._window[client] = Rejected(kept, t)],
                     status |-> 429,
                     retry_after |-> IF retry_after > 10 THEN retry_after \div 10 ELSE 1,
                     counted |-> FALSE]
            ELSE [self |-> [self EXCEPT !._window[client] = Append(kept, t)],
                  status |-> 0, retry_after |-> NoHeader, counted |-> TRUE]

\* -------------------------------------------------------------------------
\* The state machine: one engine serving one request at a time
\* -------------------------------------------------------------------------
VARIABLES
    settings,     \* ValidationEngine._settings, as model_dump() gives it
    pc,           \* "idle", "request", "invalid", "returned" or "raised"
    request,      \* the ValidationRequest under way
    request_id,   \* the request_id argument of run
    oracle,       \* what the readability library reports for the text
    outcome,      \* what run gave for the request
    validators,   \* ValidationEngine._validators, the cached instances
    overridden,   \* has the engine run a request with overrides in effect
    threads,      \* per thread calling run at once: the locals of its call
    limiter,      \* the RateLimitMiddleware instance of the application
    now,          \* time.monotonic(), in tenths of a second
    log           \* the requests the middleware has seen, oldest first

vars == <<settings, pc, request, request_id, oracle, outcome, validators,
          overridden, threads, limiter, now, log>>

\* What the rate limiter keeps and sees
rateVars == <<limiter, now, log>>

\* The engine object
Engine == [_settings |-> settings, _validators |-> validators]

NoRequest == [text |-> Text(<<>>, 0), validators |-> <<>>, config_overrides |-> <<>>]

\* The threads that call run on the one engine; thread 1 is the main thread
NumThreads == 2
ThreadIds  == 1..NumThreads
MainThread == 1

\* The locals of a call of run in one thread, and where the call stands:
\* "idle", "loop" (in the loop over the selected validators), "returned" or
\* "raised".  armed: the thread is inside a validate whose matches are
\* collected under the alarm; elapsed: other threads have run since.
NoThread ==
    [pc |-> "idle", request |-> NoRequest, rid |-> NoRequestId,
     normalized |-> <<>>, overrides |-> <<>>, selected |-> <<>>,
     results |-> <<>>, armed |-> FALSE, elapsed |-> FALSE,
     response |-> NoResponse]
NoOutcome == [status |-> "none", response |-> NoResponse, normalized |-> FALSE,
              invoked |-> <<>>]

\* The configurations the engine is built with
EngineSettings ==
    {Settings(limit, <<"s","e","c","r","e","t">>) : limit \in Limits}
    \cup {CappedSettings}

\* The application with one of the configurations of choices and a rate
\* limiter of one of the rates of rpms: the engine and the middleware are
\* built once
Start(choices, rpms) ==
    /\ settings \in choices
    /\ limiter \in {RateLimitMiddleware(rpm, DefaultLimiter.burst) : rpm \in rpms}
    /\ now = 0
    /\ log = <<>>
    /\ pc = "idle"
    /\ request = NoRequest
    /\ request_id = NoRequestId
    /\ oracle = NoOracle
    /\ outcome = NoOutcome
    /\ validators = _build_validators(settings)
    /\ overridden = FALSE
    /\ threads = [t \in ThreadIds |-> NoThread]

Init == Start(EngineSettings, {DefaultLimiter.rpm})

\* A client builds a ValidationRequest; pydantic rejects a text that is
\* empty or longer than MAX_TEXT_LENGTH
Construct ==
    /\ pc = "idle"
    /\ \E call \in Calls(settings.max_text_length.int) :
          /\ request' = call.request
          /\ request_id' = call.request_id
          /\ pc' = IF RequestValid(call.request.text) THEN "request" ELSE "invalid"
    /\ UNCHANGED <<settings, oracle, outcome, validators, overridden, threads>>
    /\ UNCHANGED rateVars

\* engine.run(request, request_id)
Run ==
    /\ pc = "request"
    /\ \E o \in OracleChoices(request, settings.max_text_length.int) :
          /\ oracle' = o
          /\ outcome' = run(Engine, request, request_id, o)
          /\ pc' = outcome'.status
    /\ validators' = RegistryAfterRun(Engine, request)
    /\ overridden' = (overridden \/ (/\ ~ExceedsLimit(request.text,
                                                      settings.max_text_length.int)
                                     /\ _sanitize_overrides(request.config_overrides)
                                           # <<>>))
    /\ UNCHANGED <<settings, request, request_id, threads>>
    /\ UNCHANGED rateVars

\* The caller has taken the response or the exception
Done ==
    /\ pc \in {"invalid", "returned", "raised", "aggregated", "normalized"}
    /\ pc' = "idle"
    /\ request' = NoRequest
    /\ request_id' = NoRequestId
    /\ oracle' = NoOracle
    /\ outcome' = NoOutcome
    /\ UNCHANGED <<settings, validators, overridden, threads>>
    /\ UNCHANGED rateVars

Next == Construct \/ Run \/ Done

Spec == Init /\ [][Next]_vars

\* -------------------------------------------------------------------------
\* compute_risk_taxonomy called on results of any shape
\* -------------------------------------------------------------------------
\* The number of findings of a result that carries several
SynthFindings == 3

\* The shapes a result of check name is given: passed and clean, failed with
\* a score below 0 or above 100, failed without a score and with several
\* CRITICAL findings, passed with a score and a WARNING finding
ResultShapes(name) ==
    LET finding(sev) == ValidationFinding(name, sev, <<"x">>, None, <<>>)
    IN <<ValidationResult(name, TRUE, None, <<>>),
         ValidationResult(name, FALSE, Some(-105), <<finding(WARNING)>>),
         ValidationResult(name, FALSE, Some(1210), <<finding(WARNING)>>),
         ValidationResult(name, FALSE, None,
                          [k \in 1..SynthFindings |-> finding(CRITICAL)]),
         ValidationResult(name, TRUE, Some(850), <<finding(WARNING)>>)>>

\* compute_risk_taxonomy(results) called on its own, on a list in which each
\* check is absent (0) or present in one of its shapes
Aggregate ==
    /\ pc = "idle"
    /\ \E shape \in [DOMAIN _REGISTRY -> 0..Len(ResultShapes("pii"))] :
          LET results == Concat([k \in DOMAIN _REGISTRY |->
                            IF shape[k] = 0 THEN <<>>
                            ELSE <<ResultShapes(_REGISTRY[k])[shape[k]]>>])
          IN outcome' = [status |-> "aggregated",
                         response |-> [results |-> results,
                                       risk |-> compute_risk_taxonomy(results)],
                         normalized |-> FALSE, invoked |-> <<>>]
    /\ pc' = "aggregated"
    /\ UNCHANGED <<settings, request, request_id, oracle, validators, overridden,
                   threads>>
    /\ UNCHANGED rateVars

RiskNext == Next \/ Aggregate

RiskSpec == Init /\ [][RiskNext]_vars

\* -------------------------------------------------------------------------
\* normalize_text called on texts of any code points
\* -------------------------------------------------------------------------
\* The code points of the texts: a base letter, a combining mark, the
\* precomposed letter of the two, a zero-width space, a Cyrillic and a
\* fullwidth homoglyph of the base letter, a soft hyphen and a NUL
NormAlphabet ==
    {"e", "U+0301", "U+00E9", "U+200B", "U+0435", "U+FF45", "U+00AD", "U+0000"}

\* The length of the longest text
MaxNormLen == 3

NormTexts == UNION {{Tuple(t) : t \in [1..n -> NormAlphabet]} : n \in 0..MaxNormLen}

\* normalize_text(t) called on its own, and once more on what it returned
Normalize ==
    /\ pc = "idle"
    /\ \E t \in NormTexts :
          /\ request' = ValidationRequest(Text(t, 0), <<>>, <<>>)
          /\ outcome' = Only({[status |-> "normalized",
                               response |-> [once |-> n, twice |-> normalize_text(n)],
                               normalized |-> TRUE, invoked |-> <<>>] :
                                 n \in {normalize_text(t)}})
    /\ pc' = "normalized"
    /\ UNCHANGED <<settings, request_id, oracle, validators, overridden, threads>>
    /\ UNCHANGED rateVars

NormNext == Normalize \/ Done

NormSpec == Init /\ [][NormNext]_vars

\* -------------------------------------------------------------------------
\* Several threads calling run on one engine at once
\* -------------------------------------------------------------------------
\* The calls the threads make: a text with an e-mail address checked for PII,
\* the mixed text checked for brand voice and PII without and with an
\* override, an override that makes building the instance raise, and a text
\* the length gate turns away
ConcCalls ==
    {ValidationRequest(Text(Fragments[2], 0), <<"pii">>, <<>>),
     ValidationRequest(Text(MixedBody, 0), <<"brand_voice", "pii">>, <<>>),
     ValidationRequest(Text(MixedBody, 0), <<"brand_voice", "pii">>,
        [c \in {"brand_voice"} |-> VDict([brand_voice_target_score |-> VNum(1000)])]),
     ValidationRequest(Text(MixedBody, 0), <<"brand_voice">>,
        [c \in {"brand_voice"} |-> VDict([brand_voice_keywords |-> VInt(5)])]),
     ValidationRequest(Text(CleanBody, SmallLimit + 1 - Len(CleanBody)), <<"all">>, <<>>)}

\* The validator the loop of thread t runs next
NextName(t) == threads[t].selected[Len(threads[t].results) + 1]

InLoop(t) ==
    /\ threads[t].pc = "loop"
    /\ Len(threads[t].results) < Len(threads[t].selected)

\* The validators whose validate collects its matches with safe_finditer
Guarded(t) == t = MainThread /\ NextName(t) = "pii"

\* Thread t calls run(request): the length gate, normalize_text,
\* _sanitize_overrides and _resolve_validators, all on locals
Enter(t) ==
    /\ threads[t].pc = "idle"
    /\ \E req \in ConcCalls :
          /\ RequestValid(req.text)
          /\ threads' = [threads EXCEPT ![t] =
                IF ExceedsLimit(req.text, settings.max_text_length.int)
                THEN [NoThread EXCEPT !.pc = "returned", !.request = req,
                         !.rid = NewRequestId,
                         !.response = GateResponse(NewRequestId, req.text,
                                          settings.max_text_length.int)]
                ELSE [NoThread EXCEPT !.pc = "loop", !.request = req,
                         !.rid = NewRequestId,
                         !.normalized = Scanned(req.text),
                         !.overrides = _sanitize_overrides(req.config_overrides),
                         !.selected = _resolve_validators(req.validators)]]
    /\ UNCHANGED <<settings, pc, request, request_id, oracle, outcome, validators,
                   overridden>>
    /\ UNCHANGED rateVars

\* The main thread sets the alarm of safe_finditer: signal.alarm(timeout)
\* counts wall-clock seconds from here on
Arm(t) ==
    /\ InLoop(t)
    /\ Guarded(t)
    /\ ~threads[t].armed
    /\ threads' = [threads EXCEPT ![t].armed = TRUE, ![t].elapsed = FALSE]
    /\ UNCHANGED <<settings, pc, request, request_id, oracle, outcome, validators,
                   overridden>>
    /\ UNCHANGED rateVars

\* The results run appends for the validator thread t runs next: in the
\* main thread, once other threads have run while the alarm was set, any of
\* the guarded calls may have timed out
StepResults(t) ==
    IF Guarded(t) /\ threads[t].elapsed
    THEN {Contain("pii", PiiScan(InstanceConfig(Engine, threads[t].overrides, "pii"),
                                 threads[t].normalized, late)) :
             late \in SUBSET PiiTypeNames}
    ELSE {RunOne(Engine, threads[t].overrides, NextName(t), threads[t].normalized,
                 NoOracle)}

\* One pass of the loop of run in thread t; the time it takes passes for
\* every thread that has the alarm set
Step(t) ==
    /\ InLoop(t)
    /\ Guarded(t) => threads[t].armed
    /\ \E r \in StepResults(t) :
          /\ threads' = [u \in ThreadIds |->
                IF u = t
                THEN IF r = Propagate
                     THEN [threads[t] EXCEPT !.pc = "raised"]
                     ELSE [threads[t] EXCEPT !.results = Append(@, r),
                                             !.armed = FALSE, !.elapsed = FALSE]
                ELSE IF threads[u].armed
                     THEN [threads[u] EXCEPT !.elapsed = TRUE]
                     ELSE threads[u]]
          /\ validators' =
                IF r # Propagate /\ NextName(t) \in DOMAIN threads[t].overrides
                THEN RegistryAfter(validators, NextName(t),
                        [config |-> InstanceConfig(Engine, threads[t].overrides,
                                                   NextName(t))])
                ELSE validators
    /\ UNCHANGED <<settings, pc, request, request_id, oracle, outcome, overridden>>
    /\ UNCHANGED rateVars

\* The loop of thread t is over: run aggregates and returns the response
Leave(t) ==
    /\ threads[t].pc = "loop"
    /\ Len(threads[t].results) = Len(threads[t].selected)
    /\ \E o \in {Respond(threads[t].request, threads[t].rid, threads[t].results)} :
          threads' = [threads EXCEPT ![t].pc = o.status, ![t].response = o.response]
    /\ UNCHANGED <<settings, pc, request, request_id, oracle, outcome, validators,
                   overridden>>
    /\ UNCHANGED rateVars

\* The caller in thread t has taken the response or the exception
Return(t) ==
    /\ threads[t].pc \in {"returned", "raised"}
    /\ threads' = [threads EXCEPT ![t] = NoThread]
    /\ UNCHANGED <<settings, pc, request, request_id, oracle, outcome, validators,
                   overridden>>
    /\ UNCHANGED rateVars

ConcNext ==
    \E t \in ThreadIds : Enter(t) \/ Arm(t) \/ Step(t) \/ Leave(t) \/ Return(t)

ConcInit == Init /\ settings.max_text_length.int = SmallLimit

ConcSpec == ConcInit /\ [][ConcNext]_vars

\* -------------------------------------------------------------------------
\* The rate limiter in front of the application
\* -------------------------------------------------------------------------
\* The values of requests_per_minute the middleware is built with
Rpms == 0..2

\* The requests that arrive: from either address, from the second address
\* naming the first in x-forwarded-for, and for the health endpoint
Arrivals ==
    {[path |-> "/api/v1/validate", host |-> c, forwarded |-> <<>>] : c \in Clients}
    \cup {[path |-> "/api/v1/validate", host |-> "10.0.0.2",
           forwarded |-> <<"10.0.0.1">>],
          [path |-> "/health", host |-> "10.0.0.1", forwarded |-> <<>>]}

\* The time between one arrival and the next, in tenths of a second: none,
\* half a second, and half a second less than a minute
Gaps == {0, 5, 595}

\* The number of requests that arrive
MaxRequests == 3

\* A request arrives gap seconds after the one before: dispatch runs up to
\* its answer or its await, with no await in between
Arrive ==
    /\ Len(log) < MaxRequests
    /\ \E req \in Arrivals, gap \in Gaps :
          \E d \in {dispatch(limiter, req, now + gap)} :
              /\ now' = now + gap
              /\ limiter' = d.self
              /\ log' = Append(log,
                     [client |-> _client_ip(req), path |-> req.path,
                      at |-> now + gap, status |-> d.status,
                      retry_after |-> d.retry_after, counted |-> d.counted,
                      limit |-> NoHeader, remaining |-> NoHeader])
    /\ UNCHANGED <<settings, pc, request, request_id, oracle, outcome, validators,
                   overridden, threads>>

\* call_next returns for a request that is with the application, and
\* dispatch sets the X-RateLimit headers on the response
Complete ==
    /\ \E i \in DOMAIN log :
          /\ log[i].status = 0
          /\ log' = [log EXCEPT
                       ![i].status = 200,
                       ![i].limit = IF log[i].counted THEN limiter.rpm ELSE NoHeader,
                       ![i].remaining =
                           IF ~log[i].counted THEN NoHeader
                           ELSE IF limiter.rpm - Len(limiter._window[log[i].client]) > 0
                           THEN limiter.rpm - Len(limiter._window[log[i].client])
                           ELSE 0]
    /\ UNCHANGED <<settings, pc, request, request_id, oracle, outcome, validators,
                   overridden, threads, limiter, now>>

RateNext == Arrive \/ Complete

RateInit == Start({Settings(MAX_TEXT_LENGTH, <<"s","e","c","r","e","t">>)}, Rpms)

RateSpec == RateInit /\ [][RateNext]_vars

\* -------------------------------------------------------------------------
\* Properties
\* -------------------------------------------------------------------------
\* The configured limit, the response of the call, and whether the length
\* gate turned the call away
Limit    == settings.max_text_length.int
Response == outcome.response
Returned == pc = "returned"
Gated    == Returned /\ TextLen(request.text) > Limit
Served   == Returned /\ TextLen(request.text) <= Limit
Selected == _resolve_validators(request.validators)

\* C1: response.passed is true exactly when at least one check ran and every
\* result passed; the length gate gives passed=false and validators_run=0,
\* and a selection that resolves to no known check gives passed=false.
C1_PassedIffRanAndAllPassed ==
    Returned =>
        /\ Response.passed =
              (/\ Response.validators_run > 0
               /\ \A k \in DOMAIN Response.results : Response.results[k].passed)
        /\ Gated => (~Response.passed /\ Response.validators_run = 0)
        /\ (Served /\ \A k \in DOMAIN request.validators :
                         request.validators[k] \notin Range(_REGISTRY) \cup {"all"})
              => ~Response.passed

\* A served request whose selection resolves to no check, answered passed=false
C1_Witness ==
    /\ Served
    /\ request.validators = <<"nonexistent">>
    /\ Response.validators_run = 0
    /\ ~Response.passed

\* The positions of the results of the PII check in the response
PiiResults == {k \in DOMAIN Response.results :
                  Response.results[k].validator_name = "pii"}

\* The text a finding's span covers in the normalised text
Matched(f) == Group(Scanned(request.text), f.span)

\* The PII values of a text exchanged for other values of the same shape:
\* letters and digits are swapped in pairs, everything else stays
SwapValue(c) ==
    CASE c = "a" -> "x" [] c = "x" -> "a"
      [] c = "b" -> "y" [] c = "y" -> "b"
      [] c = "2" -> "7" [] c = "7" -> "2"
      [] c = "3" -> "8" [] c = "8" -> "3"
      [] OTHER -> c
SwapValues(s) == Tuple([k \in DOMAIN s |-> SwapValue(s[k])])

\* The spans and PII types of the findings of a PII result, in order
Positions(findings) ==
    Tuple([k \in DOMAIN findings |-> <<findings[k].span, findings[k].metadata[1].val>>])

\* C2: the text matched for a PII finding occurs neither in the finding's
\* message nor in its serialized metadata, and a text that differs only in
\* the PII values at the same positions produces identical PII findings.
C2_PiiFindingsCarryNoValue ==
    Served =>
        \A k \in PiiResults :
            LET findings == Response.results[k].findings
                other == PiiValidate(settings, SwapValues(Scanned(request.text))).findings
            IN /\ \A j \in DOMAIN findings :
                    /\ ~IsSubstring(Matched(findings[j]), findings[j].message)
                    /\ ~IsSubstring(Matched(findings[j]),
                                    serialize(findings[j].metadata))
               /\ Positions(other) = Positions(findings) => other = findings

\* A PII finding whose matched value differs from the value at the same
\* position of the exchanged text
C2_Witness ==
    /\ Served
    /\ \E k \in PiiResults :
          LET findings == Response.results[k].findings
              swapped == SwapValues(Scanned(request.text))
          IN /\ Len(findings) >= 2
             /\ Positions(PiiValidate(settings, swapped).findings) = Positions(findings)
             /\ \A j \in DOMAIN findings :
                   Group(swapped, findings[j].span) # Matched(findings[j])

\* C3: when the PII check runs, no substring it detected appears in any
\* message or any metadata of any finding of any check of the response.
C3_NoPiiAnywhereInResponse ==
    Served =>
        \A k \in PiiResults : \A j \in DOMAIN Response.results[k].findings :
            \A r \in DOMAIN Response.results : \A g \in DOMAIN Response.results[r].findings :
                LET m == Matched(Response.results[k].findings[j])
                    f == Response.results[r].findings[g]
                IN /\ ~IsSubstring(m, f.message)
                   /\ ~IsSubstring(m, serialize(f.metadata))

\* The (check, locked key) pairs the overrides of the request try to set
LockedAttempts ==
    {ck \in (DOMAIN request.config_overrides) \X LockedKeyNames :
        /\ request.config_overrides[ck[1]].ty = "dict"
        /\ ck[2] \in DOMAIN request.config_overrides[ck[1]].items}

\* The request with key ck[2] taken out of the overrides of check ck[1]
WithoutAttempt(ck) ==
    [request EXCEPT !.config_overrides =
        [c \in DOMAIN request.config_overrides |->
            IF c = ck[1]
            THEN VDict(WithoutKey(request.config_overrides[c].items, ck[2]))
            ELSE request.config_overrides[c]]]

\* len(str(k)) + len(str(v)) summed over the overrides of the request
OverrideSize ==
    SumOver([k \in DOMAIN request.config_overrides |->
                Len(k) + StrLen(request.config_overrides[k])],
            DOMAIN request.config_overrides)

\* Does check c get from this call what it gets from the call other (both
\* raise, or both return and the results of c agree position by position)
SameResultFor(c, other) ==
    /\ other.status = outcome.status
    /\ other.invoked = outcome.invoked
    /\ Returned =>
          \A k \in DOMAIN Selected :
              Selected[k] = c => other.response.results[k] = Response.results[k]

C5_RunNeverRaises ==
    /\ pc # "raised"
    /\ Served => Len(Response.results) = Len(Selected)

\* The positions of the selected checks whose validate raised in this call
RaisedAt ==
    {k \in DOMAIN Selected :
        Validate(Selected[k],
                 InstanceConfig(Engine, _sanitize_overrides(request.config_overrides),
                                Selected[k]),
                 Scanned(request.text), oracle) = Raise}

\* "internal error", the words the message of the engine finding carries
InternalError == <<"i","n","t","e","r","n","a","l"," ","e","r","r","o","r">>

\* C6: a check that raises during validate is replaced, at its position, by
\* a result with its name, passed=false and exactly one ERROR finding that
\* reports an internal error; validators_run counts it.
C6_RaisingCheckYieldsErrorFinding ==
    Served =>
        \A k \in RaisedAt :
            /\ Response.validators_run = Len(Selected)
            /\ Response.results[k].validator_name = Selected[k]
            /\ ~Response.results[k].passed
            /\ Len(Response.results[k].findings) = 1
            /\ Response.results[k].findings[1].severity = ERROR
            /\ IsSubstring(InternalError,
                           LowerStr(Response.results[k].findings[1].message))

\* C7 as stated, for requests without overrides: under every configured
\* limit a text of exactly Limit characters runs all selected checks and a
\* text of Limit + 1 characters runs none.
C7_ExactLimitRunsAllChecks ==
    (pc \in {"invalid", "returned", "raised"} /\ request.config_overrides = <<>>) =>
        /\ TextLen(request.text) = Limit =>
              (Returned /\ outcome.invoked = Selected
               /\ Response.validators_run = Len(Selected))
        /\ TextLen(request.text) = Limit + 1 =>
              (outcome.invoked = <<>>
               /\ Returned => Response.validators_run = 0)

\* C7 amended: when the limit is at most MAX_TEXT_LENGTH, a text of exactly
\* Limit characters passes the length gate (it is normalised, the selected
\* checks are called in order, and a returned response has one result for
\* each of them); above MAX_TEXT_LENGTH such a text is rejected when the
\* request is built.  A text of Limit + 1 characters runs no check under
\* every limit.
C7_ExactLimitRunsAllChecksUpToMax ==
    pc \in {"invalid", "returned", "raised"} =>
        /\ (TextLen(request.text) = Limit /\ Limit <= MAX_TEXT_LENGTH) =>
              /\ pc # "invalid"
              /\ outcome.normalized
              /\ Returned => (outcome.invoked = Selected
                              /\ Response.validators_run = Len(Selected))
              /\ pc = "raised" =>
                    (Len(outcome.invoked) < Len(Selected)
                     /\ outcome.invoked = SubSeq(Selected, 1, Len(outcome.invoked)))
        /\ (TextLen(request.text) = Limit /\ Limit > MAX_TEXT_LENGTH) =>
              pc = "invalid"
        /\ TextLen(request.text) = Limit + 1 =>
              /\ pc # "raised"
              /\ outcome.invoked = <<>>
              /\ ~outcome.normalized
              /\ Returned => Response.validators_run = 0

\* A text of exactly MAX_TEXT_LENGTH characters served under that limit by
\* all five checks
C7_Witness ==
    /\ Served
    /\ Limit = MAX_TEXT_LENGTH
    /\ TextLen(request.text) = Limit
    /\ outcome.invoked = _REGISTRY
    /\ Response.validators_run = Len(_REGISTRY)

\* C8: a text longer than the limit is answered without normalising it or
\* calling a check: passed=false, validators_run=0, exactly one ERROR finding
\* of the engine whose message names the limit, risk RED with composite
\* 100.0 and no axes, text_length the original length, and the request id
\* supplied (a generated one when none was supplied).
C8_GateResponse ==
    (Returned /\ TextLen(request.text) > Limit) =>
        /\ ~outcome.normalized
        /\ outcome.invoked = <<>>
        /\ ~Response.passed
        /\ Response.validators_run = 0
        /\ Len(Response.results) = 1
        /\ Len(Response.results[1].findings) = 1
        /\ Response.results[1].findings[1].validator_name = "_engine"
        /\ Response.results[1].findings[1].severity = ERROR
        /\ IsSubstring(<<"o","f"," ">> \o CommaChars(Limit) \o <<" ">>,
                       Response.results[1].findings[1].message)
        /\ Response.risk.risk_level = "RED"
        /\ Response.risk.composite_risk_score = 1000
        /\ Response.risk.axes = <<>>
        /\ Response.text_length = TextLen(request.text)
        /\ Response.request_id =
              (IF request_id \in {NoRequestId, ""} THEN NewRequestId ELSE request_id)

\* A gated call that carried a request id, for a text holding PII
C8_Witness ==
    /\ Gated
    /\ request_id = "req-1"
    /\ Response.request_id = "req-1"
    /\ request.text.body = MixedBody
    /\ Response.text_length = Limit + 1

\* C10 as stated: validators_run is the number of entries of results in
\* every response, the response of the length gate included.
C10_ValidatorsRunIsResultCount ==
    Returned => Response.validators_run = Len(Response.results)

\* C10 amended: validators_run is the number of entries of results in every
\* response of a call the length gate let through; the response of the gate
\* has validators_run = 0 and exactly one entry, the engine's own.
C10_ValidatorsRunIsResultCountWhenServed ==
    /\ Served => Response.validators_run = Len(Response.results)
    /\ Gated => /\ Response.validators_run = 0
                /\ Len(Response.results) = 1
                /\ Response.results[1].validator_name = "_engine"

\* A served call with a repeated check, counted twice
C10_Witness ==
    /\ Served
    /\ request.validators = <<"pii", "pii">>
    /\ Response.validators_run = 2
    /\ Len(Response.results) = 2

\* C9: the composite risk score is between 0 and 100 and every axis raw
\* score is between 0 and 100, for the results of every request and for
\* results of any score, findings and subset of checks (scores in tenths).
C9_RiskScoresInRange ==
    (pc \in {"returned", "aggregated"}) =>
        /\ Response.risk.composite_risk_score >= 0
        /\ Response.risk.composite_risk_score <= 1000
        /\ \A a \in DOMAIN Response.risk.axes :
              /\ Response.risk.axes[a].raw_score >= 0
              /\ Response.risk.axes[a].raw_score <= 1000

\* Results with a failed score above 100 and CRITICAL findings on three
\* axes: an axis at 0, an axis at 100 and the composite held at 100
C9_Witness ==
    /\ pc = "aggregated"
    /\ \E k \in DOMAIN Response.results :
          /\ ~Response.results[k].passed
          /\ Response.results[k].score # None
          /\ Response.results[k].score[1] > 1000
          /\ Response.results[k].validator_name = "readability"
    /\ Response.risk.composite_risk_score = 1000
    /\ _critical_escalation(Response.results) = 100
    /\ \E a \in DOMAIN Response.risk.axes : Response.risk.axes[a].raw_score = 0
    /\ \E a \in DOMAIN Response.risk.axes : Response.risk.axes[a].raw_score = 1000

\* The sum of the weights of the axes a response lists, in hundredths
AxisWeightSum ==
    SumSeq([a \in DOMAIN Response.risk.axes |-> Response.risk.axes[a].weight])

\* C11 as stated: in every response of run, the response of the length gate
\* included, the weights of the listed axes sum to 1.0 within 0.001.
C11_AxisWeightsSumToOne ==
    Returned => AxisWeightSum = 100

\* C11 amended: in every response of a call the length gate let through,
\* whatever checks were selected, the five axes are listed and their weights
\* sum to 1.0; the response of the gate lists no axis, so its weights sum
\* to 0.
C11_AxisWeightsSumToOneWhenServed ==
    /\ Served => (Len(Response.risk.axes) = 5 /\ AxisWeightSum = 100)
    /\ Gated => (Response.risk.axes = <<>> /\ AxisWeightSum = 0)

\* A served call that selected no known check and still lists five axes
C11_Witness ==
    /\ Served
    /\ request.validators = <<>>
    /\ Response.results = <<>>
    /\ Len(Response.risk.axes) = 5
    /\ AxisWeightSum = 100

\* The code points a text handed to a check is to be free of: the invisible
\* set, NUL, and the ASCII control characters other than tab, line feed and
\* carriage return
InvisibleSet ==
    {"U+200B", "U+200C", "U+200D", "U+200E", "U+200F", "U+2060", "U+2061",
     "U+2062", "U+2063", "U+2064", "U+FEFF", "U+00AD"}

ControlSet ==
    {"U+0000", "U+0001", "U+0002", "U+0003", "U+0004", "U+0005", "U+0006",
     "U+0007", "U+0008", "U+000B", "U+000C", "U+000E", "U+000F", "U+0010",
     "U+0011", "U+0012", "U+0013", "U+0014", "U+0015", "U+0016", "U+0017",
     "U+0018", "U+0019", "U+001A", "U+001B", "U+001C", "U+001D", "U+001E",
     "U+001F", "U+007F"}

\* The text of the request as a check would scan it with the splitting code
\* points taken out beforehand
Unsplit ==
    Scanned(Text(SelectSeq(request.text.body,
                           LAMBDA c : c \notin InvisibleSet \cup ControlSet),
                 request.text.pad))

\* C12: in every run that passes the length gate the text is normalised
\* before any check is invoked, the text handed to the checks holds no code
\* point of the invisible set, no NUL and no ASCII control character other
\* than tab, line feed and carriage return, and so the PII and injection
\* checks fail on a text whenever they fail on it with those code points
\* taken out.
C12_ChecksSeeNoInvisible ==
    (Served /\ request.config_overrides = <<>>) =>
        /\ outcome.normalized
        /\ \A k \in DOMAIN Scanned(request.text) :
              Scanned(request.text)[k] \notin InvisibleSet \cup ControlSet
        /\ \A k \in DOMAIN Response.results :
              (/\ Response.results[k].validator_name \in {"pii", "prompt_injection"}
               /\ ~Validate(Response.results[k].validator_name, settings,
                            Unsplit, oracle).passed)
                 => ~Response.results[k].passed

\* C13: normalize_text is idempotent: normalising a normalised text of base
\* letters, combining marks, precomposed letters, invisible code points and
\* homoglyphs, in any order, gives the same text again.
C13_NormalizeIdempotent ==
    pc = "normalized" => Response.twice = Response.once

\* The request overrides the phrase list of the forbidden_phrases check with
\* a list of one phrase
OverridesPhraseList ==
    /\ "forbidden_phrases" \in DOMAIN request.config_overrides
    /\ request.config_overrides["forbidden_phrases"].ty = "dict"
    /\ "forbidden_phrases"
          \in DOMAIN request.config_overrides["forbidden_phrases"].items
    /\ request.config_overrides["forbidden_phrases"].items["forbidden_phrases"].ty
          = "list"
    /\ Len(request.config_overrides["forbidden_phrases"].items["forbidden_phrases"].items)
          = 1

OverridePhrase ==
    request.config_overrides["forbidden_phrases"].items["forbidden_phrases"].items[1]

\* C14: a request that selects the forbidden_phrases check and overrides its
\* phrase list with [p] is checked against [p]: a text that contains p fails
\* the forbidden_phrases check, also when it contains no default phrase.
C14_PhraseOverrideApplies ==
    (/\ Served
     /\ "forbidden_phrases" \in Range(Selected)
     /\ OverridesPhraseList
     /\ IsSubstring(LowerStr(OverridePhrase), LowerStr(Scanned(request.text))))
       => \A k \in DOMAIN Response.results :
             Response.results[k].validator_name = "forbidden_phrases"
                => ~Response.results[k].passed

\* The check names in registry order, and the names of the results of the
\* response in the order they are listed
RegistryOrder ==
    <<"forbidden_phrases", "pii", "brand_voice", "prompt_injection", "readability">>

ResultNames ==
    Tuple([k \in DOMAIN Response.results |-> Response.results[k].validator_name])

KnownInOwnOrder ==
    SelectSeq(request.validators, LAMBDA n : n \in Range(RegistryOrder))

\* C15 as stated: the results are listed, and the checks invoked, in registry
\* order for the selection ["all"], and otherwise in the request's own order
\* with the unknown names skipped.
C15_ResultsInResolvedOrder ==
    Served =>
        /\ ResultNames = IF request.validators = <<"all">> THEN RegistryOrder
                         ELSE KnownInOwnOrder
        /\ outcome.invoked = ResultNames

\* C15 amended: the results are listed, and the checks invoked, in registry
\* order when "all" appears anywhere in the selection, and otherwise in the
\* request's own order with the unknown names skipped and repeated names
\* kept; a run that raises has invoked a prefix of that order.
C15_ResultsInResolvedOrderAnyAll ==
    LET resolved == IF "all" \in Range(request.validators) THEN RegistryOrder
                    ELSE KnownInOwnOrder
    IN /\ Served => (ResultNames = resolved /\ outcome.invoked = resolved)
       /\ pc = "raised" =>
             /\ Len(outcome.invoked) < Len(resolved)
             /\ outcome.invoked = SubSeq(resolved, 1, Len(outcome.invoked))

\* A served call whose selection names two checks against registry order,
\* with an unknown name between them
C15_Witness ==
    /\ Served
    /\ request.validators = <<"readability", "nonexistent", "brand_voice">>
    /\ ResultNames = <<"readability", "brand_voice">>
    /\ outcome.invoked = <<"readability", "brand_voice">>

\* C16: every response with passed=false carries at least one finding in
\* some result or a non-zero critical escalation in its risk score.
C16_FailingVerdictIsExplained ==
    (Returned /\ ~Response.passed) =>
        \/ \E k \in DOMAIN Response.results : Response.results[k].findings # <<>>
        \/ _critical_escalation(Response.results) > 0

\* C18: per-request overrides never outlive their request: no step changes
\* the engine's settings or its cached check instances, and once the engine
\* has run requests with overrides in effect, a request without overrides
\* gets what a freshly constructed engine gives it.
C18_OverridesDoNotOutlive ==
    [][/\ settings' = settings
       /\ validators' = validators
       /\ (pc = "request" /\ overridden /\ request.config_overrides = <<>>)
             => outcome' = run(ValidationEngine(settings), request, request_id,
                               oracle')]_vars

\* A request without overrides, answered by an engine that has run a request
\* with overrides in effect and holds the instances it was built with
C18_Witness ==
    /\ overridden
    /\ Served
    /\ request.config_overrides = <<>>
    /\ "brand_voice" \in Range(ResultNames)
    /\ validators = _build_validators(settings)

\* What the call of thread t gave, and what run gives for the same request
\* on an engine no other call is using
ThreadOutcome(t) == [status |-> threads[t].pc, response |-> threads[t].response]

AloneOutcome(t) ==
    Only({[status |-> o.status, response |-> o.response] :
            o \in {run(ValidationEngine(settings), threads[t].request, NoRequestId,
                       NoOracle)}})

\* C17: one engine may be used by many threads at once without locking: in
\* every interleaving each call returns the response it would return if it
\* were executed alone, and the locals of a call are those of its own
\* request.
C17_ConcurrentRunsAsAlone ==
    \A t \in ThreadIds :
        /\ threads[t].pc \in {"returned", "raised"}
              => ThreadOutcome(t) = AloneOutcome(t)
        /\ threads[t].pc = "loop"
              => /\ threads[t].normalized = Scanned(threads[t].request.text)
                 /\ threads[t].overrides
                       = _sanitize_overrides(threads[t].request.config_overrides)

\* C19: in every response, and for results of any shape, risk_level is the
\* band of composite_risk_score: GREEN below 20, YELLOW from 20 and below
\* 50, ORANGE from 50 and below 80, RED from 80 up to 100 (scores in tenths).
C19_RiskLevelIsBandOfScore ==
    (pc \in {"returned", "aggregated"}) =>
        LET score == Response.risk.composite_risk_score
            level == Response.risk.risk_level
        IN /\ level \in {"GREEN", "YELLOW", "ORANGE", "RED"}
           /\ (level = "GREEN")  <=> (score < 200)
           /\ (level = "YELLOW") <=> (200 <= score /\ score < 500)
           /\ (level = "ORANGE") <=> (500 <= score /\ score < 800)
           /\ (level = "RED")    <=> (800 <= score /\ score <= 1000)

\* Results whose composite score is exactly 80.0, in the RED band
C19_Witness ==
    /\ pc = "aggregated"
    /\ Response.risk.composite_risk_score = 800
    /\ Response.risk.risk_level = "RED"


\* The positions of the results of the prompt-injection check in the response
InjectionResults == {k \in DOMAIN Response.results :
                        Response.results[k].validator_name = "prompt_injection"}

\* finding.metadata["matched"] of a finding of the prompt-injection check
MatchedShown(f) == f.metadata[2].val

PhraseResults == {k \in DOMAIN Response.results :
                     Response.results[k].validator_name = "forbidden_phrases"}

\* The configured phrases, lower-cased
ConfiguredPhrases == Range(ForbiddenPhrasesInit(settings))

\* The offsets at which phrase occurs in text, whatever the case
Occurrences(phrase, text) ==
    {i \in 0..(Len(text) - Len(phrase)) :
        \A k \in 1..Len(phrase) : ToLower(text[i + k]) = phrase[k]}

RECURSIVE Disjoint(_, _, _)
\* The occurrences a scan from offset pos reports when it resumes at the end
\* of each occurrence it reports
Disjoint(occ, len, pos) ==
    LET later == {i \in occ : i >= pos}
    IN IF later = {} THEN {}
       ELSE LET i == SetMin(later)
            IN {i} \cup Disjoint(occ, len, i + len)

\* The findings of result r about phrase
FindingsAbout(r, phrase) ==
    {j \in DOMAIN r.findings : r.findings[j].metadata[1].val = phrase}

\* Result r has exactly one ERROR finding with span for each offset of at, and
\* no other finding, about phrase
OneFindingEach(r, phrase, at) ==
    /\ Cardinality(FindingsAbout(r, phrase)) = Cardinality(at)
    /\ {r.findings[j].span : j \in FindingsAbout(r, phrase)}
           = {<<i, i + Len(phrase)>> : i \in at}
    /\ \A j \in FindingsAbout(r, phrase) : r.findings[j].severity = ERROR

\* C21 as stated: for each configured phrase the forbidden-phrase check emits
\* exactly one ERROR finding with span per case-insensitive occurrence of the
\* phrase in the text, overlapping occurrences of the same phrase included,
\* and it passes exactly when it emitted no finding.
C21_OneFindingPerOccurrence ==
    Served =>
        \A k \in PhraseResults :
            LET r == Response.results[k]
            IN  /\ \A phrase \in ConfiguredPhrases :
                       OneFindingEach(r, phrase,
                           Occurrences(phrase, Scanned(request.text)))
                /\ r.passed = (Len(r.findings) = 0)

\* C21 amended: for each configured phrase the forbidden-phrase check emits
\* exactly one ERROR finding with span per case-insensitive occurrence that a
\* left-to-right scan meets when it resumes at the end of each occurrence it
\* reports, so an occurrence that overlaps a reported occurrence of the same
\* phrase is not reported; every finding is about a configured phrase, and
\* the check passes exactly when it emitted no finding.
C21_OneFindingPerDisjointOccurrence ==
    Served =>
        \A k \in PhraseResults :
            LET r == Response.results[k]
            IN  /\ \A phrase \in ConfiguredPhrases :
                       OneFindingEach(r, phrase,
                           Disjoint(Occurrences(phrase, Scanned(request.text)),
                                    Len(phrase), 0))
                /\ \A j \in DOMAIN r.findings :
                       r.findings[j].metadata[1].val \in ConfiguredPhrases
                /\ r.passed = (Len(r.findings) = 0)

\* A served response of the forbidden-phrase check on a text where a phrase
\* occurs twice, the second occurrence overlapping the first, with one
\* finding about it
C21_Witness ==
    /\ Served
    /\ \E k \in PhraseResults : \E phrase \in ConfiguredPhrases :
           /\ Cardinality(Occurrences(phrase, Scanned(request.text))) = 2
           /\ Cardinality(FindingsAbout(Response.results[k], phrase)) = 1
           /\ ~Response.results[k].passed


\* C22: in every response, the number of findings of each check's result does
\* not exceed the configured max_findings_per_validator, however many matches
\* the text contains.
C22_FindingsCapped ==
    Served =>
        \A k \in DOMAIN Response.results :
            Len(Response.results[k].findings)
                <= settings.max_findings_per_validator.int


\* The requests of the log that the rate limiter limits, and those it let
\* through to the application
Limited  == {i \in DOMAIN log : log[i].path # "/health"}
Admitted == {i \in DOMAIN log : log[i].counted}

\* The requests of the client of request i that were admitted before it and
\* less than 60 seconds before it
LastMinute(i) ==
    {j \in Admitted : j < i /\ log[j].client = log[i].client
                      /\ log[j].at > log[i].at - 600}

\* C23: with rate_limit_rpm = 0 rate limiting is disabled: the rate limiter
\* admits every request of every client and never answers 429.
C23_ZeroRpmDisables ==
    limiter.rpm = 0 => \A i \in DOMAIN log : log[i].status # 429

C30_RejectedNotRecorded ==
    /\ \A i \in Limited :
           (log[i].status = 429) <=> (Cardinality(LastMinute(i)) >= limiter.rpm)
    /\ \A c \in Clients :
           /\ \A k \in DOMAIN limiter._window[c] :
                  \E j \in Admitted : /\ log[j].client = c
                                      /\ log[j].at = limiter._window[c][k]
           /\ Len(limiter._window[c])
                  <= Cardinality({j \in Admitted : log[j].client = c})

\* A client is admitted, answered 429 half a second before the minute is
\* over, and admitted again once the minute is over, while another client
\* was never held back
C30_Witness ==
    \E i, j, k \in Limited :
        /\ i < j /\ j < k
        /\ log[i].client = log[j].client /\ log[j].client = log[k].client
        /\ log[i].counted
        /\ log[j].status = 429
        /\ log[k].counted
        /\ log[k].at - log[i].at = 600


\* The state holds a list of results and the taxonomy computed from it
Computed == pc = "aggregated" \/ Served

\* The result of check v in the response (a check that ran twice gave the
\* same result twice)
ResultOf(v) ==
    Response.results[CHOOSE k \in DOMAIN Response.results :
                         Response.results[k].validator_name = v]

\* The contributing checks of axis a that produced a result
Contributing(a) ==
    {v \in Range(_RISK_AXES[a].validators) :
        \E k \in DOMAIN Response.results : Response.results[k].validator_name = v}

\* The points of a severity
SeverityPoints(sev) ==
    CASE sev = INFO -> 0 [] sev = WARNING -> 15 [] sev = ERROR -> 40
      [] sev = CRITICAL -> 80

\* The sum of the severity points of the findings of a result
FindingPoints(r) ==
    SumSeq([k \in DOMAIN r.findings |-> SeverityPoints(r.findings[k].severity)])

\* The points of a result, in tenths: 0 if it passed with no findings,
\* 100 - score if it failed and has a score, otherwise the severity points
\* of its findings up to 100
CheckPoints(r) ==
    IF r.passed /\ r.findings = <<>> THEN 0
    ELSE IF ~r.passed /\ r.score # None THEN 1000 - r.score[1]
    ELSE Min2(10 * FindingPoints(r), 1000)

\* The same with the inverted score held at 0: max(0, 100 - score)
CheckPointsHeld(r) ==
    IF ~r.passed /\ r.score # None THEN Max2(0, CheckPoints(r))
    ELSE CheckPoints(r)

\* The sum over the contributing results of axis a of points[v], held
\* between 0 and 100 times their number: the mean, clamped, times the number
\* of contributors (tenths)
ClampedTotal(a, points) ==
    LET n == Cardinality(Contributing(a))
    IN Max2(0, Min2(SumOver(points, Contributing(a)), 1000 * n))

\* Is shown, a number of tenths, the fraction num / den rounded to one
\* decimal: it is a nearest tenth
IsRounded(shown, num, den) ==
    /\ 2 * (shown * den - num) <= den
    /\ 2 * (num - shown * den) <= den

\* The raw score of axis a is the clamped mean of points over its
\* contributing results, and 0 when there is none
RawIsMeanOf(a, points) ==
    IF Contributing(a) = {} THEN Response.risk.axes[a].raw_score = 0
    ELSE IsRounded(Response.risk.axes[a].raw_score,
                   ClampedTotal(a, points), Cardinality(Contributing(a)))

\* The axes that have a CRITICAL finding among the results of their
\* contributing checks
CriticalAxes ==
    {a \in DOMAIN _RISK_AXES :
        \E v \in Contributing(a) :
            \E k \in DOMAIN ResultOf(v).findings :
                ResultOf(v).findings[k].severity = CRITICAL}

\* The escalation for k axes with a CRITICAL finding, in whole points
Escalation(k) == IF k = 0 THEN 0 ELSE IF k = 1 THEN 40 ELSE IF k = 2 THEN 80 ELSE 100

\* C24: for every list of results, composite_risk_score is
\* min(sum over the five axes of raw * weight + escalation, 100) rounded to
\* one decimal, where escalation is 0, 40, 80 or 100 as 0, 1, 2 or at least 3
\* distinct axes have a CRITICAL finding among the results of their
\* contributing checks (raw is the axis raw score before it is rounded,
\* the clamped mean of max(0, .)-held points).
C24_CompositeIsCappedSum ==
    Computed =>
        LET K   == Factorial(MaxContributors)
            den == 100 * K
            raw == [a \in DOMAIN _RISK_AXES |->
                      IF Contributing(a) = {} THEN 0
                      ELSE (ClampedTotal(a, [v \in Contributing(a) |->
                                                CheckPointsHeld(ResultOf(v))]) * K)
                               \div Cardinality(Contributing(a))]
            sum == SumSeq(Tuple([a \in DOMAIN _RISK_AXES |->
                                   raw[a] * Response.risk.axes[a].weight]))
                   + 10 * Escalation(Cardinality(CriticalAxes)) * den
        IN /\ Len(Response.risk.axes) = 5
           /\ IsRounded(Response.risk.composite_risk_score,
                        Min2(sum, 1000 * den), den)

\* Results with a CRITICAL finding on one axis, a composite strictly between
\* 40 and 100, and an axis whose raw score is the mean of two results
C24_Witness ==
    /\ pc = "aggregated"
    /\ Cardinality(CriticalAxes) = 1
    /\ Response.risk.composite_risk_score > 400
    /\ Response.risk.composite_risk_score < 1000
    /\ \E a \in DOMAIN _RISK_AXES :
          /\ Cardinality(Contributing(a)) = 2
          /\ Response.risk.axes[a].raw_score \notin {0, 1000}

\* C25 as stated: each axis raw score is the mean, over its contributing
\* checks that produced a result (0 if none did), of the per-check points,
\* clamped to [0, 100], where a check contributes 0 if it passed with no
\* findings, 100 - score if it failed and has a score, and otherwise
\* min(sum of the severity points of its findings, 100); for every score,
\* also above 100 and below 0.
C25_AxisRawIsMeanOfPoints ==
    Computed =>
        \A a \in DOMAIN _RISK_AXES :
            RawIsMeanOf(a, [v \in Contributing(a) |-> CheckPoints(ResultOf(v))])

\* C25 amended: the same, where a check that failed and has a score
\* contributes max(0, 100 - score).
C25_AxisRawIsMeanOfHeldPoints ==
    Computed =>
        \A a \in DOMAIN _RISK_AXES :
            RawIsMeanOf(a, [v \in Contributing(a) |-> CheckPointsHeld(ResultOf(v))])

\* An axis with two contributing results, one failed with a score above 100
\* and one with points of its own, and an axis whose result failed with a
\* score below 0
C25_Witness ==
    /\ Computed
    /\ \E a \in DOMAIN _RISK_AXES :
          /\ Cardinality(Contributing(a)) = 2
          /\ \E v, w \in Contributing(a) :
                /\ ~ResultOf(v).passed /\ ResultOf(v).score # None
                /\ ResultOf(v).score[1] > 1000
                /\ CheckPoints(ResultOf(w)) > 0
          /\ Response.risk.axes[a].raw_score > 0
    /\ \E b \in DOMAIN _RISK_AXES :
          \E v \in Contributing(b) :
              /\ ~ResultOf(v).passed /\ ResultOf(v).score # None
              /\ ResultOf(v).score[1] < 0

\* C26: a hard failure dominates the composite whatever the axis weights:
\* with a CRITICAL finding on exactly one axis the composite is at least 40
\* and risk_level is not GREEN; with CRITICAL findings on two or more
\* distinct axes risk_level is RED.
C26_HardFailureDominates ==
    Computed =>
        /\ Cardinality(CriticalAxes) = 1 =>
               /\ Response.risk.composite_risk_score >= 400
               /\ Response.risk.risk_level # "GREEN"
        /\ Cardinality(CriticalAxes) >= 2 => Response.risk.risk_level = "RED"

\* A served response with CRITICAL findings of the PII check alone, above 40
\* and not GREEN
C26_Witness ==
    /\ Served
    /\ Cardinality(CriticalAxes) = 1
    /\ \E k \in PiiResults :
          \E j \in DOMAIN Response.results[k].findings :
              Response.results[k].findings[j].severity = CRITICAL
    /\ Response.risk.composite_risk_score >= 400
    /\ Response.risk.risk_level \in {"YELLOW", "ORANGE"}


\* C27: the configuration the engine hands to check constructors, for the
\* cached registry instances and for the transient per-request instances,
\* never contains the api_key setting.
C27_ConfigWithoutApiKey ==
    /\ \A name \in DOMAIN validators :
           "api_key" \notin DOMAIN validators[name].config
    /\ pc = "request" =>
           \A name \in DOMAIN _sanitize_overrides(request.config_overrides) :
               name \in Range(_REGISTRY) =>
                   "api_key" \notin DOMAIN InstanceConfig(Engine,
                       _sanitize_overrides(request.config_overrides), name)


\* C29: verdict and risk band never contradict each other upward: in every
\* response of run, passed = true implies composite_risk_score <= 20 and
\* risk_level GREEN or YELLOW; a response with risk_level ORANGE or RED has
\* passed = false.
C29_PassedImpliesLowRisk ==
    Returned =>
        /\ Response.passed =>
               /\ Response.risk.composite_risk_score <= 200
               /\ Response.risk.risk_level \in {"GREEN", "YELLOW"}
        /\ Response.risk.risk_level \in {"ORANGE", "RED"} => ~Response.passed

\* A response that passed with all five checks run, off-tone warnings of the
\* brand-voice check, a composite of exactly 20.0 and the band YELLOW
C29_Witness ==
    /\ Served
    /\ Response.passed
    /\ Response.validators_run = 5
    /\ \E k \in DOMAIN Response.results :
          /\ Response.results[k].validator_name = "brand_voice"
          /\ Len(Response.results[k].findings) = 7
    /\ Response.risk.composite_risk_score = 200
    /\ Response.risk.risk_level = "YELLOW"

====
